---- MODULE Spec2Model ----
(***************************************************************************)
(* A model of the multiplexed HTTP relay pair: server.py (origin server)   *)
(* and proxy.py (caching proxy).                                           *)
(*                                                                         *)
(* Text is a sequence of symbols.  A symbol is a TLA+ string standing for  *)
(* one character of the wire text ("0".."9", "|", "a", "b") or for one     *)
(* piece of HTTP text that chunking and receive calls never cut: a status  *)
(* line with the line break and the Date/Server/Content-* header lines     *)
(* that follow it, the line end "\r\n" (CRLF), the blank line "\r\n\r\n",  *)
(* a header name, a date, a status body.  The string of a symbol is its    *)
(* text (for a status line symbol, the text of its first line); only the   *)
(* line end, the blank line and the status line symbols hold line breaks.  *)
(* "0xC3" and "0xA9" are the two bytes of one character of UTF-8 text: a   *)
(* receive call can end between them, and bytes.decode() raises on a run   *)
(* of bytes that holds one of them without the other.                      *)
(* Code that reads the lines of a text (split on the line break), the      *)
(* fields of a line (str.split) or a number (int) is modelled on that      *)
(* text: a header line is a line that starts with the header's name, the   *)
(* fields are cut at the spaces inside the symbols, and int() ignores the  *)
(* line ends around the digits.                                            *)
(*                                                                         *)
(* The specifications share the definitions:                               *)
(*   SpecWire   one upstream connection: sendFramedResponse of the server, *)
(*              the bytes in flight, receiveFramedResponse of the proxy    *)
(*              and the proxy's reply to its client;                       *)
(*   SpecFrame  the same connection when every receive call returns one    *)
(*              whole frame;                                               *)
(*   SpecServer one server connection with its read loop, its handler      *)
(*              threads and the connection's write lock;                   *)
(*   SpecSplit  the same connection when the bytes can also be cut between *)
(*              the two line ends of a blank line;                         *)
(*   SpecLive   the upstream connection under fair scheduling;             *)
(*   SpecProxy  the proxy's client threads, the shared cache and the       *)
(*              stream id generator, with any upstream;                    *)
(*   SpecRelay  the proxy with server.py as its upstream, each request on   *)
(*              a connection of its own;                                   *)
(*   SpecDemux  receiveFramedResponse against any peer, one frame per      *)
(*              receive call.                                              *)
(***************************************************************************)
EXTENDS Integers, Sequences, FiniteSets, TLC

VARIABLES
    \* ---- configuration (server.py:81), drawn at Init
    maxChunkSize,
    \* ---- SpecWire: server side of one upstream connection
    response,        \* sendFramedResponse: the response being framed
    stream_id,       \* sendFramedResponse: the stream id of the response
    sendOffset,      \* sendFramedResponse: loop variable i
    framesSent,      \* history: the (stream_id, end_stream, chunk) of every frame sent
    wire,            \* bytes written by the server, not yet received by the proxy
    othersSent,      \* number of frames of other streams put on the wire
    peerClosed,      \* the upstream side of the connection is closed
    \* ---- SpecWire: proxy side, receiveFramedResponse and the reply to the client
    buffer,          \* receiveFramedResponse: buffer
    responseChunks,  \* receiveFramedResponse: responseChunks
    rxState,         \* "receiving", "returned", "handled", "replied"
    received,        \* the value receiveFramedResponse returned
    answer,          \* handleClient: response, the value handleRequest returned
    clientOut,       \* what the proxy wrote to its client connection
    \* ---- SpecProxy
    cache,           \* proxy.py cache: filename -> entry
    stream_id_gen,   \* proxy.py stream_id_gen: the next value of itertools.count(1)
    clock,           \* the current time, as formatdate() sees it
    px,              \* proxy client threads: thread -> record of handleClient's locals
    issued,          \* history: the stream ids handed out, in allocation order
    \* ---- SpecServer
    connIn,          \* bytes sent by the peer of the server connection, not yet received
    connInClosed,    \* the peer has closed its side
    srvBuffer,       \* server handleClient: buffer
    srvState,        \* server handleClient: "reading", "joining", "closed"
    threads,         \* server handleClient: threads (records of handleRequestThread)
    conn_lock,       \* server handleClient: conn_lock; 0 when free, else the holder
    connOut,         \* bytes written to the server connection, each with its writer
    files            \* the origin's files: filename -> [exists, content, mtime]

wireVars == <<response, stream_id, sendOffset, framesSent, wire, othersSent, peerClosed,
              buffer, responseChunks, rxState, received, answer, clientOut>>
proxyVars == <<cache, stream_id_gen, clock, px, issued>>
serverVars == <<connIn, connInClosed, srvBuffer, srvState, threads, conn_lock, connOut,
                files>>
vars == <<maxChunkSize, wireVars, proxyVars, serverVars>>

-----------------------------------------------------------------------------
(* Bounds of the model *)

\* the largest MAX_CHUNK_SIZE configured (the source sets 1024, server.py:81)
MaxChunk == 2
\* the longest response body
MaxBody == 2
\* how many frames of other streams the connection carries
MaxOther == 1
\* the largest one-digit stream id in use
MaxStream == 2
\* how many frames the peer of the proxy's upstream connection sends
MaxFrames == 3
\* how many requests the peer of a server connection sends
MaxRequests == 2
\* how many client connections the proxy serves at the same time
MaxClients == 2
\* how many requests the proxy sends upstream in all
MaxIds == 3
\* how many requests the relay sends to the origin in all
MaxRelay == 2
\* clients the relay of SpecRelay serves at a time
MaxServed == 1
\* the latest time the clock reaches
MaxClock == 1

-----------------------------------------------------------------------------
(* Text *)

DELIM == "|"
BLANKLINE == "CRLFCRLF"
CRLF == "CRLF"
Digits == <<"0", "1", "2", "3", "4", "5", "6", "7", "8", "9">>
DigitSet == {Digits[i] : i \in 1..10}
DigitVal(c) == CHOOSE v \in 0..9 : Digits[v + 1] = c

\* str(n) for n >= 0, as an f-string formats an int
RECURSIVE IntToStr(_)
IntToStr(n) ==
    IF n < 10 THEN <<Digits[n + 1]>>
    ELSE IntToStr(n \div 10) \o <<Digits[(n % 10) + 1]>>

\* the symbols that are white space and nothing else
WhiteSpace == {CRLF, BLANKLINE}

\* s.strip(), as int(s) applies it: s without the white space at its two ends
Strip(s) ==
    LET inked == {i \in 1..Len(s) : s[i] \notin WhiteSpace}
        lo == CHOOSE i \in inked : \A j \in inked : i <= j
        hi == CHOOSE i \in inked : \A j \in inked : j <= i
    IN  IF inked = {} THEN <<>> ELSE SubSeq(s, lo, hi)

\* whether int(s) succeeds: a non-empty run of decimal digits, with or without
\* white space around it
IsIntText(s) ==
    LET t == Strip(s)
    IN  Len(t) > 0 /\ \A i \in 1..Len(t) : t[i] \in DigitSet

\* the number a run of decimal digits writes
RECURSIVE DigitsToInt(_)
DigitsToInt(d) ==
    IF Len(d) = 0 THEN 0
    ELSE 10 * DigitsToInt(SubSeq(d, 1, Len(d) - 1)) + DigitVal(d[Len(d)])

\* int(s) for a text int() accepts
StrToInt(s) == DigitsToInt(Strip(s))

\* s.count(c)
Count(s, c) == Cardinality({i \in 1..Len(s) : s[i] = c})

\* s.find(c), 1-based; 0 when c does not occur
Find(s, c) ==
    IF \E i \in 1..Len(s) : s[i] = c
    THEN CHOOSE i \in 1..Len(s) : s[i] = c /\ \A j \in 1..(i - 1) : s[j] # c
    ELSE 0

Tail0(s, i) == SubSeq(s, i + 1, Len(s))

\* "".join(chunks)
RECURSIVE Join(_)
Join(chunks) == IF Len(chunks) = 0 THEN <<>> ELSE Head(chunks) \o Join(Tail(chunks))

Min(a, b) == IF a < b THEN a ELSE b

\* buffer.find("\r\n\r\n") + 1: where the first blank line of buf starts, 0 when
\* there is none; a blank line is one BLANKLINE or a CRLF followed by a CRLF or
\* by the first half of a BLANKLINE
FindBlank(buf) ==
    LET at(k) == \/ buf[k] = BLANKLINE
                 \/ /\ k < Len(buf) /\ buf[k] = CRLF
                    /\ buf[k + 1] \in {CRLF, BLANKLINE}
    IN  IF \E k \in 1..Len(buf) : at(k)
        THEN CHOOSE k \in 1..Len(buf) : at(k) /\ \A j \in 1..(k - 1) : ~at(j)
        ELSE 0

\* buffer.split("\r\n\r\n", 1)[1]: what follows the blank line that starts at k
AfterBlank(buf, k) ==
    IF buf[k] = BLANKLINE THEN Tail0(buf, k)
    ELSE IF buf[k + 1] = CRLF THEN Tail0(buf, k + 1)
    ELSE <<CRLF>> \o Tail0(buf, k + 1)

-----------------------------------------------------------------------------
(* HTTP text shared by server.py and proxy.py *)

VERSION == "HTTP/1.1"
DEFAULT_FILE == "test.html"
PRVIATE_FILE == "private.html"

\* the status line of a response, with the Date and Server (and, for a non-empty
\* body, Content-Length and Content-Type) header lines that createResponse adds
StatusLine(statusCode) ==
    CASE statusCode = 200 -> "HTTP/1.1 200 OK"
      [] statusCode = 304 -> "HTTP/1.1 304 Not Modified"
      [] statusCode = 403 -> "HTTP/1.1 403 Forbidden"
      [] statusCode = 404 -> "HTTP/1.1 404 Not Found"
      [] statusCode = 500 -> "HTTP/1.1 500 Internal Server Error"
      [] statusCode = 505 -> "HTTP/1.1 505 HTTP Version Not Supported"

\* the status lines of STATUS
StatusLines == {StatusLine(c) : c \in {200, 304, 403, 404, 500, 505}}

\* STATUS[code]["body"], one symbol
StatusBody(statusCode) ==
    CASE statusCode = 403 -> "<h1>403 Forbidden</h1>"
      [] statusCode = 404 -> "<h1>404 Not Found</h1>"
      [] statusCode = 500 -> "<h1>500 Internal Server Error</h1>"
      [] statusCode = 505 -> "<h1>505 HTTP Version Not Supported</h1>"

\* formatdate(t, usegmt=True): the HTTP date of time t
DateTexts == <<"Thu, 01 Jan 1970 00:00:00 GMT", "Thu, 01 Jan 1970 00:00:01 GMT",
               "Thu, 01 Jan 1970 00:00:02 GMT", "Thu, 01 Jan 1970 00:00:03 GMT",
               "Thu, 01 Jan 1970 00:00:04 GMT", "Thu, 01 Jan 1970 00:00:05 GMT",
               "Thu, 01 Jan 1970 00:00:06 GMT", "Thu, 01 Jan 1970 00:00:07 GMT">>
formatdate(t) == DateTexts[t + 1]

LAST_MODIFIED == "Last-Modified: "
IF_MODIFIED_SINCE == "If-Modified-Since: "

\* text.split("\r\n"): the lines of the text, each a string.  A status line
\* symbol ends its line and is followed by its header lines, written as one line
\* (no code tests more of them than how they start); what follows the symbol
\* follows the last of them.
RECURSIVE LinesOf(_)
LinesOf(text) ==
    IF Len(text) = 0 THEN <<"">>
    ELSE LET before == LinesOf(SubSeq(text, 1, Len(text) - 1))
             sym == text[Len(text)]
             open == [before EXCEPT ![Len(before)] = @ \o sym]
         IN  IF sym = CRLF THEN Append(before, "")
             ELSE IF sym = BLANKLINE THEN before \o <<"", "">>
             ELSE IF sym \in StatusLines THEN Append(open, "Server: TestServer/1.0")
             ELSE open

\* text.split("\r\n")[0], for a text that is only read up to its first line break
RECURSIVE FirstLine(_)
FirstLine(text) ==
    IF Len(text) = 0 \/ Head(text) \in WhiteSpace THEN ""
    ELSE IF Head(text) \in StatusLines THEN Head(text)
    ELSE Head(text) \o FirstLine(Tail(text))

\* str.startswith(prefix)
StartsWith(str, prefix) ==
    Len(str) >= Len(prefix) /\ SubSeq(str, 1, Len(prefix)) = prefix

\* bytes.lower() of one character
UpperCase == <<"A", "B", "C", "D", "E", "F", "G", "H", "I", "J", "K", "L", "M",
               "N", "O", "P", "Q", "R", "S", "T", "U", "V", "W", "X", "Y", "Z">>
LowerCase == <<"a", "b", "c", "d", "e", "f", "g", "h", "i", "j", "k", "l", "m",
               "n", "o", "p", "q", "r", "s", "t", "u", "v", "w", "x", "y", "z">>
LowerChar(c) ==
    IF \E i \in 1..26 : UpperCase[i] = c
    THEN LowerCase[CHOOSE i \in 1..26 : UpperCase[i] = c]
    ELSE c

\* bytes.lower()
RECURSIVE Lower(_)
Lower(str) ==
    IF Len(str) = 0 THEN ""
    ELSE LowerChar(SubSeq(str, 1, 1)) \o Lower(SubSeq(str, 2, Len(str)))

\* str.find(sep), 1-based, for a separator of two characters; 0 when it does not occur
FindIn(str, sep) ==
    LET at == {i \in 1..(Len(str) - 1) : SubSeq(str, i, i + 1) = sep}
    IN  IF at = {} THEN 0 ELSE CHOOSE i \in at : \A j \in at : i <= j

\* str.split() computed: the fields of the line, cut at the runs of spaces
SplitAtSpaces(line) ==
    LET spaces == {i \in 1..Len(line) : SubSeq(line, i, i) = " "}
        starts == {i \in (1..Len(line)) \ spaces : i = 1 \/ (i - 1) \in spaces}
        nth(n) == CHOOSE i \in starts : Cardinality({j \in starts : j < i}) = n - 1
        endOf(lo) ==
            LET after == {i \in spaces : i > lo}
            IN  IF after = {} THEN Len(line)
                ELSE (CHOOSE i \in after : \A j \in after : i <= j) - 1
    IN  [n \in 1..Cardinality(starts) |-> SubSeq(line, nth(n), endOf(nth(n)))]

\* the fields of the request lines the clients of the specifications send,
\* computed once
RequestLineFields ==
    [line \in {"GET / HTTP/1.1", "GET /test.html HTTP/1.1",
               "GET /private.html HTTP/1.1", "GET /test.html HTTP/1.0",
               "GET /private.html HTTP/1.0", ""} |->
        SplitAtSpaces(line)]

\* str.split()
Split(line) ==
    IF line \in DOMAIN RequestLineFields THEN RequestLineFields[line]
    ELSE SplitAtSpaces(line)

\* path.lstrip("/")
LStrip(path) ==
    LET kept == {i \in 1..Len(path) : SubSeq(path, i, i) # "/"}
    IN  IF kept = {} THEN ""
        ELSE SubSeq(path, CHOOSE i \in kept : \A j \in kept : i <= j, Len(path))

\* "method, path, version = lines[0].split()" for n fields, n # 3: the ValueError
UnpackError(n) ==
    IF n > 3 THEN "<p>too many values to unpack (expected 3)</p>"
    ELSE "<p>not enough values to unpack (expected 3, got " \o Digits[n + 1] \o ")</p>"

\* repr(word) of a str: in double quotes when the word holds a single quote
Repr(word) ==
    IF \E i \in 1..Len(word) : SubSeq(word, i, i) = "'"
    THEN "\"" \o word \o "\""
    ELSE "'" \o word \o "'"

-----------------------------------------------------------------------------
(* Frame codec *)

\* server.py sendFramedResponse, the f-string that builds a frame
EncodeFrame(sid, end_stream, chunk) ==
    IntToStr(sid) \o <<DELIM>> \o IntToStr(end_stream) \o <<DELIM>> \o chunk

\* text.split("|", 2): the three fields, when text holds two delimiters
SplitFrame(text) ==
    LET p1 == Find(text, DELIM)
        rest1 == Tail0(text, p1)
        p2 == Find(rest1, DELIM)
    IN  IF p1 = 0 \/ p2 = 0
        THEN [ok |-> FALSE, sidStr |-> <<>>, endStr |-> <<>>, rest |-> <<>>]
        ELSE [ok |-> TRUE, sidStr |-> SubSeq(text, 1, p1 - 1),
              endStr |-> SubSeq(rest1, 1, p2 - 1), rest |-> Tail0(rest1, p2)]

MalformedFrame == [ok |-> FALSE, stream_id |-> 0, end_flag |-> 0, payload |-> <<>>]

\* parseFrame with the end flag read from the stream id field
parseFrameFieldsConfused(frame) ==
    LET s == SplitFrame(frame)
    IN  IF ~s.ok \/ ~IsIntText(s.sidStr) \/ ~IsIntText(s.endStr)
        THEN MalformedFrame
        ELSE [ok |-> TRUE, stream_id |-> StrToInt(s.sidStr),
              end_flag |-> StrToInt(s.sidStr), payload |-> s.rest]

\* proxy.py parseFrame; ok = FALSE stands for (None, None, None)
parseFrame(frame) ==
    LET s == SplitFrame(frame)
    IN  IF ~s.ok \/ ~IsIntText(s.sidStr) \/ ~IsIntText(s.endStr)
        THEN MalformedFrame
        ELSE [ok |-> TRUE, stream_id |-> StrToInt(s.sidStr),
              end_flag |-> StrToInt(s.endStr), payload |-> s.rest]

\* proxy.py hasCompleteFrame
hasCompleteFrame(buf) == Count(buf, DELIM) >= 2

\* proxy.py extractFrame; frame = <<>> stands for None
extractFrame(buf) ==
    LET s == SplitFrame(buf)
    IN  IF s.ok
        THEN [frame |-> s.sidStr \o <<DELIM>> \o s.endStr \o <<DELIM>> \o s.rest,
              buffer |-> <<>>]
        ELSE [frame |-> <<>>, buffer |-> buf]

\* the inner loop without the test of the stream id
DrainBufferAnyStream(buf, chunks, expectedStreamId) ==
    IF ~hasCompleteFrame(buf)
    THEN [buffer |-> buf, chunks |-> chunks, done |-> FALSE]
    ELSE LET e == extractFrame(buf)
             f == parseFrame(e.frame)
         IN  IF e.frame = <<>> \/ ~f.ok
             THEN [buffer |-> e.buffer, chunks |-> chunks, done |-> FALSE]
             ELSE [buffer |-> e.buffer, chunks |-> Append(chunks, f.payload),
                   done |-> f.end_flag = 1]

\* the inner loop when a malformed frame ends the read instead of being skipped
DrainBufferAborts(buf, chunks, expectedStreamId) ==
    IF ~hasCompleteFrame(buf)
    THEN [buffer |-> buf, chunks |-> chunks, done |-> FALSE]
    ELSE LET e == extractFrame(buf)
             f == parseFrame(e.frame)
         IN  IF e.frame = <<>>
             THEN [buffer |-> e.buffer, chunks |-> chunks, done |-> FALSE]
             ELSE IF ~f.ok
             THEN [buffer |-> e.buffer, chunks |-> chunks, done |-> TRUE]
             ELSE IF f.stream_id # expectedStreamId
             THEN [buffer |-> e.buffer, chunks |-> chunks, done |-> FALSE]
             ELSE [buffer |-> e.buffer, chunks |-> Append(chunks, f.payload),
                   done |-> f.end_flag = 1]

\* proxy.py receiveFramedResponse, the inner loop "while hasCompleteFrame(buffer)":
\* done = TRUE when the loop returned the joined chunks
RECURSIVE DrainBuffer(_, _, _)
DrainBuffer(buf, chunks, expectedStreamId) ==
    IF ~hasCompleteFrame(buf)
    THEN [buffer |-> buf, chunks |-> chunks, done |-> FALSE]
    ELSE LET e == extractFrame(buf)
             f == parseFrame(e.frame)
         IN  IF e.frame = <<>>
             THEN [buffer |-> e.buffer, chunks |-> chunks, done |-> FALSE]
             ELSE IF ~f.ok
             THEN DrainBuffer(e.buffer, chunks, expectedStreamId)
             ELSE IF f.stream_id # expectedStreamId
             THEN DrainBuffer(e.buffer, chunks, expectedStreamId)
             ELSE IF f.end_flag = 1
             THEN [buffer |-> e.buffer, chunks |-> Append(chunks, f.payload),
                   done |-> TRUE]
             ELSE DrainBuffer(e.buffer, Append(chunks, f.payload), expectedStreamId)

-----------------------------------------------------------------------------
(* server.py sendFramedResponse: one iteration of the loop over range(0, len, size) *)

\* chunk = response[i : i + MAX_CHUNK_SIZE]
ChunkAt(resp, i, size) == SubSeq(resp, i + 1, Min(i + size, Len(resp)))

\* end_stream computed with > in place of >=
EndStreamStrict(resp, i, size) == IF i + size > Len(resp) THEN 1 ELSE 0

\* end_stream = int(i + MAX_CHUNK_SIZE >= len(response))
EndStream(resp, i, size) == IF i + size >= Len(resp) THEN 1 ELSE 0

\* the frame of iteration i
FrameAt(sid, resp, i, size) ==
    EncodeFrame(sid, EndStream(resp, i, size), ChunkAt(resp, i, size))

-----------------------------------------------------------------------------
(* server.py createResponse: status line, headers, blank line, body *)

ServerCreateResponse(statusCode, body) == <<StatusLine(statusCode), BLANKLINE>> \o body

-----------------------------------------------------------------------------
(* proxy.py: the cache and the handling of an upstream reply *)

FileNames == {DEFAULT_FILE, PRVIATE_FILE}

\* cache.get(fileName) of a filename never stored: None
NoEntry == [present |-> FALSE, last_modified |-> "", content |-> <<>>]
CacheEntry(lastModified, content) ==
    [present |-> TRUE, last_modified |-> lastModified, content |-> content]

\* proxy.py createResponse
createResponse(statusCode, body) == <<StatusLine(statusCode), BLANKLINE>> \o body

\* proxy.py handle500: the 500 body followed by <p>{error}</p>
handle500(error) == createResponse(500, <<StatusBody(500), error>>)

\* proxy.py handle505
handle505 == createResponse(505, <<StatusBody(505)>>)

\* the result of a call that raised: the exception's text
Raised(error) == [raised |-> TRUE, error |-> error, out |-> <<>>, store |-> NoEntry]
Returned(out, store) == [raised |-> FALSE, error |-> "", out |-> out, store |-> store]

\* int(statusLine.split()[1]): the status code or the exception raised
\* (IndexError, ValueError)
ParseStatusLine(statusLine) ==
    LET fields == Split(statusLine)
    IN  IF Len(fields) < 2
        THEN [raised |-> TRUE, statusCode |-> -1,
              error |-> "<p>list index out of range</p>"]
        ELSE LET word == fields[2]
                 chars == [i \in 1..Len(word) |-> SubSeq(word, i, i)]
             IN  IF IsIntText(chars)
                 THEN [raised |-> FALSE, statusCode |-> StrToInt(chars), error |-> ""]
                 ELSE [raised |-> TRUE, statusCode |-> -1,
                       error |-> "<p>invalid literal for int() with base 10: "
                                     \o Repr(word) \o "</p>"]

\* ParseStatusLine of the status lines createResponse writes, computed once
StatusLineParsed == [statusLine \in StatusLines |-> ParseStatusLine(statusLine)]

\* proxy.py handleRequest: statusLine = response.split(b"\r\n")[0].decode() and
\* statusCode = int(statusLine.split()[1])
ParseStatus(resp) ==
    LET statusLine == FirstLine(resp)
    IN  IF statusLine \in StatusLines THEN StatusLineParsed[statusLine]
        ELSE ParseStatusLine(statusLine)

\* statusCode of handleRequest; -1: the parse raised
StatusOf(resp) == ParseStatus(resp).statusCode

\* proxy.py handle200, "headers, body = response.split(b"\r\n\r\n", 1)": the two
\* parts, or raised = TRUE for the ValueError of a response without a blank line
SplitReply(resp) ==
    LET k == FindBlank(resp)
    IN  IF k = 0 THEN [raised |-> TRUE, headers |-> <<>>, body |-> <<>>]
        ELSE [raised |-> FALSE, headers |-> SubSeq(resp, 1, k - 1),
              body |-> AfterBlank(resp, k)]

\* proxy.py handle200, the search for the Last-Modified header: the first line
\* that starts with "last-modified:" in any case of its letters ends the loop;
\* the value is line.split(b": ", 1)[1], and raised = TRUE stands for the
\* IndexError of a line without ": "; value = "" when no line matches
LastModifiedIn(headers) ==
    LET lines == LinesOf(headers)
        hits == {i \in 1..Len(lines) :
                    /\ Len(lines[i]) >= Len("last-modified:")
                    /\ Lower(SubSeq(lines[i], 1, Len("last-modified:")))
                           = "last-modified:"}
        line == lines[CHOOSE i \in hits : \A j \in hits : i <= j]
        cut == FindIn(line, ": ")
    IN  IF hits = {} THEN [raised |-> FALSE, value |-> ""]
        ELSE IF cut = 0 THEN [raised |-> TRUE, value |-> ""]
        ELSE [raised |-> FALSE, value |-> SubSeq(line, cut + 2, Len(line))]

\* a reply of status 200 that carries a Last-Modified header
DatedReply(body) ==
    <<StatusLine(200), CRLF, LAST_MODIFIED, DateTexts[Len(DateTexts)], BLANKLINE>> \o body

\* a reply of status 200 whose Last-Modified header is written in small letters
\* and with no space after the colon
TightDatedReply(body) ==
    <<StatusLine(200), CRLF, "last-modified:", DateTexts[Len(DateTexts)], BLANKLINE>>
        \o body

\* what receiveFramedResponse may return: responses of an origin with and without
\* a Last-Modified header, the start of a response (the connection was closed
\* before its blank line), or nothing
UpstreamReplies ==
    {ServerCreateResponse(200, <<"a">>),
     DatedReply(<<"b">>), ServerCreateResponse(304, <<>>),
     ServerCreateResponse(404, <<StatusBody(404)>>), <<>>,
     TightDatedReply(<<"b">>), <<StatusLine(200), CRLF>>}

\* LastModifiedIn of the headers of those replies, computed once
LastModifiedKnown ==
    [h \in {SplitReply(r).headers : r \in UpstreamReplies} |-> LastModifiedIn(h)]

\* proxy.py handle200: lastModified, and whether the search for it raised
LastModifiedOf(headers) ==
    IF headers \in DOMAIN LastModifiedKnown THEN LastModifiedKnown[headers]
    ELSE LastModifiedIn(headers)

\* proxy.py handle200: the entry stored for the filename and the response returned
handle200(filename, resp, now) ==
    LET parts == SplitReply(resp)
        found == LastModifiedOf(parts.headers)
        lastModified == IF found.value # "" THEN found.value ELSE formatdate(now)
    IN  IF parts.raised
        THEN Raised("<p>not enough values to unpack (expected 2, got 1)</p>")
        ELSE IF found.raised THEN Raised("<p>list index out of range</p>")
        ELSE Returned(createResponse(200, parts.body),
                      CacheEntry(lastModified, parts.body))

\* proxy.py handle304: cache[filename] as it is now; the KeyError's text is the
\* repr of the filename
handle304(filename, cacheNow) ==
    IF ~cacheNow[filename].present THEN Raised("<p>" \o Repr(filename) \o "</p>")
    ELSE Returned(createResponse(200, cacheNow[filename].content), NoEntry)

\* the dispatch when every reply that is not a 304 is handled as a 200
HandleReplyStoresAny(fileName, cached, resp, cacheNow, now) ==
    LET status == ParseStatus(resp)
        statusCode == status.statusCode
    IN  IF status.raised THEN Raised(status.error)
        ELSE IF statusCode = 304 /\ cached.present THEN handle304(fileName, cacheNow)
        ELSE IF statusCode = 304 THEN Returned(resp, NoEntry)
        ELSE handle200(fileName, resp, now)

\* proxy.py handleRequest, from the parse of the status code to the return:
\* cached is the entry read when the request was built, cacheNow the cache now
HandleReply(fileName, cached, resp, cacheNow, now) ==
    LET status == ParseStatus(resp)
        statusCode == status.statusCode
    IN  IF status.raised THEN Raised(status.error)
        ELSE IF statusCode = 200 THEN handle200(fileName, resp, now)
        ELSE IF statusCode = 304 /\ cached.present THEN handle304(fileName, cacheNow)
        ELSE Returned(resp, NoEntry)

\* the response handleRequest returns for the reply, the except clause included
ReplyOut(fileName, cached, resp, cacheNow, now) ==
    LET r == HandleReply(fileName, cached, resp, cacheNow, now)
    IN  IF r.raised THEN handle500(r.error) ELSE r.out

\* a store that writes the content and keeps the lastModified of the entry it finds
ReplyCacheContentOnly(fileName, entry, cacheNow) ==
    [cacheNow EXCEPT ![fileName] =
        IF @.present THEN [@ EXCEPT !.content = entry.content] ELSE entry]

\* proxy.py handle200, "cache[filename] = {...}": the cache after the store of
\* the entry handle200 built
ReplyCache(fileName, entry, cacheNow) == [cacheNow EXCEPT ![fileName] = entry]

-----------------------------------------------------------------------------
(* Values every specification starts from for the parts it does not use *)

\* the file contents the origin serves: texts of "a" and "b" up to MaxBody long
RECURSIVE TextsUpTo(_)
TextsUpTo(n) ==
    IF n = 0 THEN {<<>>}
    ELSE LET shorter == TextsUpTo(n - 1)
         IN  shorter \cup {Append(t, c) : t \in {u \in shorter : Len(u) = n - 1},
                                           c \in {"a", "b"}}

StreamIds == 1..MaxStream

\* the responses server.py handleRequest produces
ServerResponses ==
    {ServerCreateResponse(200, body) : body \in TextsUpTo(MaxBody)}
        \cup {ServerCreateResponse(304, <<>>),
              ServerCreateResponse(404, <<StatusBody(404)>>)}

WireIdle ==
    /\ response = <<>> /\ stream_id = 0 /\ sendOffset = 0 /\ framesSent = <<>>
    /\ wire = <<>> /\ othersSent = 0 /\ peerClosed = FALSE
    /\ buffer = <<>> /\ responseChunks = <<>> /\ rxState = "idle"
    /\ received = <<>> /\ answer = <<>> /\ clientOut = <<>>

ProxyIdle ==
    /\ cache = [f \in FileNames |-> NoEntry]
    /\ stream_id_gen = 1 /\ clock = 0 /\ px = <<>> /\ issued = <<>>

ServerIdle ==
    /\ connIn = <<>> /\ connInClosed = FALSE /\ srvBuffer = <<>>
    /\ srvState = "idle" /\ threads = <<>> /\ conn_lock = 0 /\ connOut = <<>>
    /\ files = <<>>

-----------------------------------------------------------------------------
(* SpecWire: one upstream connection of the proxy.  The proxy has sent a request   *)
(* for DEFAULT_FILE tagged stream_id; the server frames its response; the proxy    *)
(* reassembles it and answers its client.                                          *)

\* the entry the proxy's cache held for DEFAULT_FILE when the request was built
WireCached == CacheEntry(formatdate(0), <<"b">>)

InitWire ==
    /\ maxChunkSize \in 1..MaxChunk
    /\ response \in ServerResponses
    /\ stream_id \in StreamIds
    /\ sendOffset = 0 /\ framesSent = <<>>
    /\ wire = <<>> /\ othersSent = 0 /\ peerClosed = FALSE
    /\ buffer = <<>> /\ responseChunks = <<>> /\ rxState = "receiving"
    /\ received = <<>> /\ answer = <<>> /\ clientOut = <<>>
    /\ cache = [f \in FileNames |-> IF f = DEFAULT_FILE THEN WireCached ELSE NoEntry]
    /\ stream_id_gen = 1 /\ clock = 1 /\ px = <<>> /\ issued = <<>>
    /\ ServerIdle

\* server.py sendFramedResponse: one iteration; a send on a closed connection
\* raises OSError, which is caught, and the loop goes on.  The connection is
\* closed from the other end as soon as receiveFramedResponse has returned
\* (sendRequest leaves its "with socket" block): what is sent after that is
\* never received
ServerSendFrame ==
    /\ sendOffset < Len(response)
    /\ framesSent' = Append(framesSent,
                            [stream_id |-> stream_id,
                             end_stream |-> EndStream(response, sendOffset, maxChunkSize),
                             chunk |-> ChunkAt(response, sendOffset, maxChunkSize)])
    /\ wire' = IF peerClosed \/ rxState # "receiving" THEN wire
               ELSE wire \o FrameAt(stream_id, response, sendOffset, maxChunkSize)
    /\ sendOffset' = sendOffset + maxChunkSize
    /\ UNCHANGED <<maxChunkSize, response, stream_id, othersSent, peerClosed, buffer,
                   responseChunks, rxState, received, answer, clientOut, proxyVars,
                   serverVars>>

\* another handler thread of the same connection writes a whole frame of its stream
OtherStreamFrame ==
    /\ othersSent < MaxOther
    /\ ~peerClosed
    /\ rxState = "receiving"
    /\ \E sid \in StreamIds \ {stream_id}, end \in {0, 1} :
           wire' = wire \o EncodeFrame(sid, end, <<"a">>)
    /\ othersSent' = othersSent + 1
    /\ UNCHANGED <<maxChunkSize, response, stream_id, sendOffset, framesSent, peerClosed,
                   buffer, responseChunks, rxState, received, answer, clientOut,
                   proxyVars, serverVars>>

\* the upstream side of the connection goes away (the origin process ends)
PeerClose ==
    /\ ~peerClosed
    /\ rxState = "receiving"
    /\ peerClosed' = TRUE
    /\ UNCHANGED <<maxChunkSize, response, stream_id, sendOffset, framesSent, wire,
                   othersSent, buffer, responseChunks, rxState, received, answer,
                   clientOut, proxyVars, serverVars>>

\* proxy.py receiveFramedResponse: one pass of the outer loop with a recv that
\* returns the first k bytes in flight
ProxyRecv ==
    /\ rxState = "receiving"
    /\ \E k \in 1..Len(wire) :
          LET d == DrainBuffer(buffer \o SubSeq(wire, 1, k), responseChunks, stream_id)
          IN  /\ wire' = Tail0(wire, k)
              /\ buffer' = d.buffer
              /\ responseChunks' = d.chunks
              /\ rxState' = IF d.done THEN "returned" ELSE "receiving"
              /\ received' = IF d.done THEN Join(d.chunks) ELSE received
    /\ UNCHANGED <<maxChunkSize, response, stream_id, sendOffset, framesSent, othersSent,
                   peerClosed, answer, clientOut, proxyVars, serverVars>>

\* the length of the first whole frame in flight: frames start with a digit and
\* no payload on this connection holds one
FirstFrameLen(w) ==
    LET s == SplitFrame(w)
        hdr == Len(s.sidStr) + Len(s.endStr) + 2
        digitsAt == {i \in 1..Len(s.rest) : s.rest[i] \in DigitSet}
    IN  IF ~s.ok THEN Len(w)
        ELSE IF digitsAt = {} THEN Len(w)
        ELSE hdr + (CHOOSE i \in digitsAt : \A j \in digitsAt : i <= j) - 1

\* proxy.py receiveFramedResponse: one pass of the outer loop with a recv that
\* returns exactly the next whole frame
ProxyRecvFrame ==
    /\ rxState = "receiving"
    /\ wire # <<>>
    /\ LET k == FirstFrameLen(wire)
           d == DrainBuffer(buffer \o SubSeq(wire, 1, k), responseChunks, stream_id)
       IN  /\ wire' = Tail0(wire, k)
           /\ buffer' = d.buffer
           /\ responseChunks' = d.chunks
           /\ rxState' = IF d.done THEN "returned" ELSE "receiving"
           /\ received' = IF d.done THEN Join(d.chunks) ELSE received
    /\ UNCHANGED <<maxChunkSize, response, stream_id, sendOffset, framesSent, othersSent,
                   peerClosed, answer, clientOut, proxyVars, serverVars>>

\* the end of the connection when the chunks collected so far are thrown away
ProxyRecvEofEmpty ==
    /\ rxState = "receiving"
    /\ peerClosed /\ wire = <<>>
    /\ rxState' = "returned"
    /\ received' = <<>>
    /\ UNCHANGED <<maxChunkSize, response, stream_id, sendOffset, framesSent, wire,
                   othersSent, peerClosed, buffer, responseChunks, answer, clientOut,
                   proxyVars, serverVars>>

\* proxy.py receiveFramedResponse: recv returns b"" and the function returns
ProxyRecvEof ==
    /\ rxState = "receiving"
    /\ peerClosed /\ wire = <<>>
    /\ rxState' = "returned"
    /\ received' = Join(responseChunks)
    /\ UNCHANGED <<maxChunkSize, response, stream_id, sendOffset, framesSent, wire,
                   othersSent, peerClosed, buffer, responseChunks, answer, clientOut,
                   proxyVars, serverVars>>

\* proxy.py handleRequest from the status parse to its return: handle200 has
\* stored the entry, nothing is written to the client yet.  This proxy has one
\* client thread and its clock stands still, so that the store finds the clock
\* and the cache as handle200 read them
ProxyReply ==
    /\ rxState = "returned"
    /\ answer' = ReplyOut(DEFAULT_FILE, WireCached, received, cache, clock)
    /\ LET r == HandleReply(DEFAULT_FILE, WireCached, received, cache, clock)
       IN  cache' = IF ~r.raised /\ r.store.present
                    THEN ReplyCache(DEFAULT_FILE, r.store, cache)
                    ELSE cache
    /\ rxState' = "handled"
    /\ UNCHANGED <<maxChunkSize, response, stream_id, sendOffset, framesSent, wire,
                   othersSent, peerClosed, buffer, responseChunks, received, clientOut,
                   stream_id_gen, clock, px, issued, serverVars>>

\* proxy.py handleClient: conn.sendall(response)
ProxySend ==
    /\ rxState = "handled"
    /\ clientOut' = answer
    /\ rxState' = "replied"
    /\ UNCHANGED <<maxChunkSize, response, stream_id, sendOffset, framesSent, wire,
                   othersSent, peerClosed, buffer, responseChunks, received, answer,
                   proxyVars, serverVars>>

NextWire ==
    \/ ServerSendFrame
    \/ OtherStreamFrame
    \/ PeerClose
    \/ ProxyRecv
    \/ ProxyRecvEof
    \/ ProxyReply
    \/ ProxySend

SpecWire == InitWire /\ [][NextWire]_vars

\* the same connection when every recv returns exactly one whole frame
NextFrame ==
    \/ ServerSendFrame
    \/ OtherStreamFrame
    \/ PeerClose
    \/ ProxyRecvFrame
    \/ ProxyRecvEof
    \/ ProxyReply
    \/ ProxySend

SpecFrame == InitWire /\ [][NextFrame]_vars

\* server.py handleClient: the origin's read loop ends only when recv returns b"",
\* that is after the proxy has left receiveFramedResponse and sendRequest's
\* "with socket" has closed the connection; it then joins its handler and closes
OriginClose ==
    /\ rxState \in {"returned", "handled", "replied"}
    /\ sendOffset >= Len(response)
    /\ ~peerClosed
    /\ peerClosed' = TRUE
    /\ UNCHANGED <<maxChunkSize, response, stream_id, sendOffset, framesSent, wire,
                   othersSent, buffer, responseChunks, rxState, received, answer,
                   clientOut, proxyVars, serverVars>>

\* SpecLive: the connection between the proxy and a reachable origin, which sends
\* the frames of the response and keeps the connection open until the proxy
\* closes it; every thread that can take a step is scheduled in the end
NextLive ==
    \/ ServerSendFrame
    \/ ProxyRecv
    \/ ProxyReply
    \/ ProxySend
    \/ OriginClose

\* ProxyRecv can take a step exactly when the proxy is receiving and bytes are
\* in flight; its weak fairness, written with that condition
ProxyRecvFair ==
    \/ []<>(~(rxState = "receiving" /\ wire # <<>>))
    \/ []<><<ProxyRecv>>_vars

SpecLive ==
    /\ InitWire
    /\ [][NextLive]_vars
    /\ WF_vars(ServerSendFrame)
    /\ ProxyRecvFair
    \* ProxyReply can take a step exactly when receiveFramedResponse has returned
    /\ ([]<>(rxState # "returned") \/ []<><<ProxyReply>>_vars)
    /\ WF_vars(ProxySend)
    /\ WF_vars(OriginClose)

-----------------------------------------------------------------------------
(* Claims about the frames and their reassembly *)

\* C1: when the frames of the response reach the proxy with the connection open,
\* whatever the grouping of the bytes into receive calls and whatever frames of
\* other streams lie between them, receiveFramedResponse returns the response.
ChunkReassembleRoundTrip ==
    (rxState \in {"returned", "handled", "replied"} /\ ~peerClosed) =>
        received = response

\* "<streamId>|<endFlag>|" somewhere in the text
ContainsFrameHeader(text) ==
    \E i \in 1..(Len(text) - 3) :
        /\ text[i] \in DigitSet
        /\ text[i + 1] = DELIM
        /\ text[i + 2] \in {"0", "1"}
        /\ text[i + 3] = DELIM

\* C4: every response the proxy writes to its client starts with a status line and
\* holds no frame header of the wire protocol.  Stated here for the upstream that
\* behaves best: the connection stays open and carries only the frames of the
\* awaited stream, grouped into receive calls in any way.
ClientNeverSeesFrame ==
    (rxState = "replied" /\ ~peerClosed /\ othersSent = 0) =>
        /\ Len(clientOut) > 0
        /\ clientOut[1] \in StatusLines
        /\ ~ContainsFrameHeader(clientOut)

\* the payloads of the frames sent so far, in send order
SentPayloads == [k \in 1..Len(framesSent) |-> framesSent[k].chunk]

\* C9: every frame carries at most MAX_CHUNK_SIZE characters, the payloads in send
\* order make up the response, and the end flag is 1 on the last frame sent and 0
\* on every other frame; a response that fits one chunk is one frame with flag 1.
EndFlagPlacement ==
    /\ \A k \in 1..Len(framesSent) :
          /\ Len(framesSent[k].chunk) <= maxChunkSize
          /\ framesSent[k].end_stream \in {0, 1}
          /\ framesSent[k].end_stream = 1 <=>
                 (k = Len(framesSent) /\ sendOffset >= Len(response))
    /\ Join(SentPayloads) = SubSeq(response, 1, Min(sendOffset, Len(response)))
    /\ sendOffset >= Len(response) =>
          /\ Len(framesSent) >= 1
          /\ Join(SentPayloads) = response
          /\ Cardinality({k \in 1..Len(framesSent) : framesSent[k].end_stream = 1}) = 1
    /\ (Len(response) <= maxChunkSize /\ sendOffset > 0) =>
          (Len(framesSent) = 1 /\ framesSent[1].end_stream = 1)

\* C9 witness: a response sent as three frames, and the loop has finished
EndFlagPlacementWitness ==
    /\ sendOffset >= Len(response)
    /\ Len(framesSent) = 3
    /\ Len(response) = 3 * maxChunkSize

\* C10: decoding the text the encoder produced for (streamId, endFlag, payload)
\* yields (streamId, endFlag, payload), for every frame sent.
FrameCodecRoundTrip ==
    \A k \in 1..Len(framesSent) :
        LET f == framesSent[k]
        IN  DELIM \notin {f.chunk[i] : i \in 1..Len(f.chunk)} =>
                parseFrame(EncodeFrame(f.stream_id, f.end_stream, f.chunk))
                    = [ok |-> TRUE, stream_id |-> f.stream_id,
                       end_flag |-> f.end_stream, payload |-> f.chunk]

\* C10 witness: frames with end flag 0 and 1 were encoded, and the proxy has
\* decoded and collected both
FrameCodecRoundTripWitness ==
    /\ \E k \in 1..Len(framesSent) : framesSent[k].end_stream = 0
    /\ \E k \in 1..Len(framesSent) :
           framesSent[k].end_stream = 1 /\ Len(framesSent[k].chunk) > 0
    /\ stream_id # 1
    /\ Len(responseChunks) = Len(framesSent)
    /\ rxState = "returned"

\* the length of the text of the first k frames the server sent
RECURSIVE SentTextLen(_)
SentTextLen(k) ==
    IF k = 0 THEN 0
    ELSE SentTextLen(k - 1)
             + Len(EncodeFrame(framesSent[k].stream_id, framesSent[k].end_stream,
                               framesSent[k].chunk))

\* a receive call returns, with the buffer empty, exactly the frames j and j + 1
RecvOfTwoFrames(j) ==
    /\ rxState = "receiving" /\ buffer = <<>>
    /\ ~peerClosed /\ othersSent = 0
    /\ j + 1 <= Len(framesSent)
    /\ SentTextLen(Len(framesSent)) - Len(wire) = SentTextLen(j - 1)
    /\ SentTextLen(Len(framesSent)) - Len(wire') = SentTextLen(j + 1)

\* C17: when a receive call brings two whole frames, the first is extracted alone
\* and the second stays in the buffer and is extracted after it as a frame of its
\* own: each payload is collected as its own chunk.
ExtractOneFrame ==
    [][\A j \in 1..Len(framesSent) :
          RecvOfTwoFrames(j) =>
              responseChunks' =
                  responseChunks \o <<framesSent[j].chunk, framesSent[j + 1].chunk>>]_vars

\* C23: under fair scheduling and with the origin reachable, the proxy answers
\* its client in the end, whatever the length of the response and however the
\* frames are grouped into the proxy's recv calls; it is never left waiting for
\* an end-flagged frame while the origin waits for the proxy to close.
ResponseLiveness == <>(rxState = "replied")

-----------------------------------------------------------------------------
(* server.py: requests and their handling *)

STREAM_ID_HEADER == "STREAM-ID: "

\* the paths of the request lines the clients of the specifications send
RequestPaths == {"/", "/test.html", "/private.html"}

\* "/" maps to DEFAULT_FILE; path.lstrip("/")
FileNameAt(path) == LStrip(IF path = "/" THEN DEFAULT_FILE ELSE path)

\* FileNameAt of those paths, computed once
FileNameKnown == [path \in RequestPaths |-> FileNameAt(path)]

\* the filename of handleRequest
FileNameOf(path) ==
    IF path \in RequestPaths THEN FileNameKnown[path] ELSE FileNameAt(path)

\* datetime.strptime of an HTTP date: the time it names; -1 when it raises
ParseDate(value) ==
    IF \E t \in 0..(Len(DateTexts) - 1) : DateTexts[t + 1] = value
    THEN CHOOSE t \in 0..(Len(DateTexts) - 1) : DateTexts[t + 1] = value
    ELSE -1

\* the ValueError of datetime.strptime(value, "%a, %d %b %Y %H:%M:%S GMT")
StrptimeError(value) ==
    IF \E t \in 1..Len(DateTexts) : StartsWith(value, DateTexts[t])
    THEN "<p>unconverted data remains: "
             \o SubSeq(value, Len(DateTexts[1]) + 1, Len(value)) \o "</p>"
    ELSE "<p>time data " \o Repr(value)
             \o " does not match format '%a, %d %b %Y %H:%M:%S GMT'</p>"

\* the text of a request as the proxy sends it (proxy.py sendRequest)
FramedRequest(sid, line) ==
    <<STREAM_ID_HEADER>> \o IntToStr(sid) \o <<CRLF, line, BLANKLINE>>

\* extractStreamIdAndCleanRequest that records the id and leaves the header line in
extractKeepsHeader(request) ==
    LET ends == {i \in 1..Len(request) : request[i] \in WhiteSpace}
        eol == IF ends = {} THEN 0 ELSE CHOOSE i \in ends : \A j \in ends : i <= j
        firstEnd == IF eol = 0 THEN Len(request) ELSE eol - 1
        value == SubSeq(request, 2, firstEnd)
    IN  IF Len(request) > 0 /\ request[1] = STREAM_ID_HEADER /\ IsIntText(value)
        THEN [framed |-> TRUE, stream_id |-> StrToInt(value), request_clean |-> request]
        ELSE [framed |-> FALSE, stream_id |-> 0, request_clean |-> request]

\* server.py extractStreamIdAndCleanRequest: lines[0] ends at the first line end
\* (a blank line is two of them), "\r\n".join(lines[1:]) is what follows it
extractStreamIdAndCleanRequest(request) ==
    LET ends == {i \in 1..Len(request) : request[i] \in WhiteSpace}
        eol == IF ends = {} THEN 0 ELSE CHOOSE i \in ends : \A j \in ends : i <= j
        firstEnd == IF eol = 0 THEN Len(request) ELSE eol - 1
        value == SubSeq(request, 2, firstEnd)
    IN  IF Len(request) > 0 /\ request[1] = STREAM_ID_HEADER /\ IsIntText(value)
        THEN [framed |-> TRUE, stream_id |-> StrToInt(value),
              request_clean |-> IF eol > 0 /\ request[eol] = BLANKLINE
                                THEN <<CRLF>> \o Tail0(request, eol)
                                ELSE Tail0(request, firstEnd + 1)]
        ELSE [framed |-> FALSE, stream_id |-> 0, request_clean |-> request]

\* server.py handle500
ServerHandle500(error) == ServerCreateResponse(500, <<StatusBody(500), error>>)

\* server.py handle304: the date is headerLine.split(": ", 1)[1], what follows
\* the first ": " of the line.  The result is the 304 response, <<>> for None,
\* the IndexError of a line without ": " or the ValueError of strptime
ServerHandle304(file, headerLine) ==
    LET cut == FindIn(headerLine, ": ")
        value == SubSeq(headerLine, cut + 2, Len(headerLine))
        clientTime == ParseDate(value)
    IN  IF cut = 0 THEN Raised("<p>list index out of range</p>")
        ELSE IF clientTime < 0 THEN Raised(StrptimeError(value))
        ELSE IF file.mtime <= clientTime
        THEN Returned(ServerCreateResponse(304, <<>>), NoEntry)
        ELSE Returned(<<>>, NoEntry)

\* server.py handleRequest up to "if not os.path.exists(filePath)": the
\* response it returns up to there, <<>> when the file is there and the loop
\* over the header lines comes next
ServerFindFile(request, fs) ==
    LET fields == Split(LinesOf(request)[1])
        fileName == FileNameOf(fields[2])
    IN  IF Len(fields) # 3 THEN ServerHandle500(UnpackError(Len(fields)))
        ELSE IF fields[3] # VERSION THEN ServerCreateResponse(505, <<>>)
        ELSE IF fileName = PRVIATE_FILE
        THEN ServerCreateResponse(403, <<StatusBody(403)>>)
        ELSE IF fileName \notin DOMAIN fs \/ ~fs[fileName].exists
        THEN ServerCreateResponse(404, <<StatusBody(404)>>)
        ELSE <<>>

\* server.py handleRequest, "for line in lines[1:]": the places, from place k
\* on, of the lines that start with "If-Modified-Since:"
ConditionalLines(lines, k) ==
    {i \in k..Len(lines) : StartsWith(lines[i], "If-Modified-Since:")}

\* server.py handleRequest against files that no one writes while it runs: the
\* loop over lines[1:] stops at the first If-Modified-Since line for which
\* handle304 raises or returns a response, and handle200 reads the file
ServerHandleRequest(request, fs) ==
    LET lines == LinesOf(request)
        file == fs[FileNameOf(Split(lines[1])[2])]
        ifModified(i) == ServerHandle304(file, lines[i])
        decided == {i \in ConditionalLines(lines, 2) :
                       ifModified(i).raised \/ ifModified(i).out # <<>>}
        first == ifModified(CHOOSE i \in decided : \A j \in decided : i <= j)
    IN  IF ServerFindFile(request, fs) # <<>> THEN ServerFindFile(request, fs)
        ELSE IF decided = {} THEN ServerCreateResponse(200, file.content)
        ELSE IF first.raised THEN ServerHandle500(first.error)
        ELSE first.out

-----------------------------------------------------------------------------
(* SpecServer: one connection of the server, its read loop (handleClient), the    *)
(* handler threads it starts (handleRequestThread) and the connection's lock.     *)
(* The peer's bytes reach the read loop cut into recv calls at any place.         *)

\* the two bytes of one character of UTF-8 text
LEAD_BYTE == "0xC3"
TRAIL_BYTE == "0xA9"

\* data.decode() returns: every character that starts in data ends in it, and
\* data starts with no second half of a character
Decodes(data) ==
    \A i \in 1..Len(data) :
        /\ data[i] = LEAD_BYTE => (i < Len(data) /\ data[i + 1] = TRAIL_BYTE)
        /\ data[i] = TRAIL_BYTE => (i > 1 /\ data[i - 1] = LEAD_BYTE)

\* the stream id a peer gives its n-th request: one digit, then two
PeerStreamId(n) == 8 + n

\* what a peer sends as its n-th request on a connection. First, third, ...: a
\* framed request for the default file, or a request whose STREAM-ID line names
\* no integer. Second, fourth, ...: a request that is a STREAM-ID line and
\* nothing else, or an unframed request for the restricted file with a header
\* line whose value is not ASCII
PeerRequests(n) ==
    IF n % 2 = 1
    THEN {FramedRequest(PeerStreamId(n), "GET /test.html HTTP/1.1"),
          <<STREAM_ID_HEADER, LEAD_BYTE, TRAIL_BYTE, CRLF, "GET /test.html HTTP/1.1",
            BLANKLINE>>}
    ELSE {<<STREAM_ID_HEADER>> \o IntToStr(PeerStreamId(n)) \o <<BLANKLINE>>,
          <<"GET /private.html HTTP/1.1", CRLF, "User-Agent: ", LEAD_BYTE, TRAIL_BYTE,
            BLANKLINE>>}

\* the texts of n requests one after the other
RECURSIVE RequestRuns(_)
RequestRuns(n) ==
    IF n = 0 THEN {<<>>}
    ELSE {rest \o r : r \in PeerRequests(n), rest \in RequestRuns(n - 1)}

\* the values of MAX_CHUNK_SIZE for a connection with several handlers: a frame
\* carries two bytes or more, so that a response is some frames and not one
\* frame for each of its bytes
ServerChunkSizes == 2..(MaxChunk + 1)

\* the origin's directory: test.html exists, private.html exists
OriginFiles ==
    [f \in FileNames |->
        [exists |-> TRUE, content |-> IF f = DEFAULT_FILE THEN <<"a">> ELSE <<"b">>,
         mtime |-> 0]]

\* handleRequest against OriginFiles for what the requests of PeerRequests leave
\* of themselves after extractStreamIdAndCleanRequest, computed once
ResponseKnown ==
    [request \in {extractStreamIdAndCleanRequest(SubSeq(r, 1, Len(r) - 1)).request_clean :
                     r \in UNION {PeerRequests(n) : n \in 1..MaxRequests}} |->
        ServerHandleRequest(request, OriginFiles)]

\* server.py handleRequest
ServerResponse(request, fs) ==
    IF fs = OriginFiles /\ request \in DOMAIN ResponseKnown THEN ResponseKnown[request]
    ELSE ServerHandleRequest(request, fs)

InitServer ==
    /\ maxChunkSize \in ServerChunkSizes
    /\ connIn \in UNION {RequestRuns(n) : n \in 1..MaxRequests}
    /\ connInClosed = FALSE /\ srvBuffer = <<>> /\ srvState = "reading"
    /\ threads = <<>> /\ conn_lock = 0 /\ connOut = <<>>
    /\ files = OriginFiles
    /\ WireIdle
    /\ ProxyIdle

\* a new handler thread: threading.Thread(target=handleRequestThread, ...).start();
\* failed is history: the writes of the thread whose sendall raised
NewThread(request) ==
    [pc |-> "start", request |-> request, framed |-> FALSE, streamId |-> 0,
     response |-> <<>>, i |-> 0, pending |-> <<>>, writes |-> 0, failed |-> {}]

\* the text with every blank line written as the two line ends it is made of
ByLineEnds(text) ==
    Join([i \in 1..Len(text) |->
            IF text[i] = BLANKLINE THEN <<CRLF, CRLF>> ELSE <<text[i]>>])

\* server.py handleClient: one pass of the read loop up to "buffer += data.decode()",
\* with a recv of k bytes that decode; the loop is back at recv when the inner
\* loop has left no blank line in the buffer
ServerRecv ==
    /\ srvState = "reading"
    /\ FindBlank(srvBuffer) = 0
    /\ \E k \in 1..Len(connIn) :
          /\ Decodes(SubSeq(connIn, 1, k))
          /\ connIn' = Tail0(connIn, k)
          /\ srvBuffer' = srvBuffer \o SubSeq(connIn, 1, k)
    /\ UNCHANGED <<maxChunkSize, wireVars, proxyVars, connInClosed, srvState, threads,
                   conn_lock, connOut, files>>

\* server.py handleClient: data.decode() raises UnicodeDecodeError on a recv of k
\* bytes; nothing catches it, the "with conn:" block is left and closes the socket
ServerRecvRaises ==
    /\ srvState = "reading"
    /\ FindBlank(srvBuffer) = 0
    /\ \E k \in 1..Len(connIn) :
          /\ ~Decodes(SubSeq(connIn, 1, k))
          /\ connIn' = Tail0(connIn, k)
    /\ srvState' = "closed"
    /\ UNCHANGED <<maxChunkSize, wireVars, proxyVars, connInClosed, srvBuffer, threads,
                   conn_lock, connOut, files>>

\* server.py handleClient, one pass of the inner loop "while '\r\n\r\n' in buffer":
\* the text before the first blank line is split off and a thread is started
\* for it
StartThread ==
    /\ srvState = "reading"
    /\ FindBlank(srvBuffer) # 0
    /\ LET k == FindBlank(srvBuffer)
       IN  /\ srvBuffer' = AfterBlank(srvBuffer, k)
           /\ threads' = Append(threads, NewThread(SubSeq(srvBuffer, 1, k - 1)))
    /\ UNCHANGED <<maxChunkSize, wireVars, proxyVars, connIn, connInClosed, srvState,
                   conn_lock, connOut, files>>

\* the peer closes its side; the close is seen after the last byte it sent is read
PeerShutdown ==
    /\ ~connInClosed
    /\ connIn = <<>>
    /\ connInClosed' = TRUE
    /\ UNCHANGED <<maxChunkSize, wireVars, proxyVars, connIn, srvBuffer, srvState,
                   threads, conn_lock, connOut, files>>

\* server.py handleClient: recv returns b"" and the read loop ends
ServerRecvEof ==
    /\ srvState = "reading"
    /\ FindBlank(srvBuffer) = 0
    /\ connInClosed /\ connIn = <<>>
    /\ srvState' = "joining"
    /\ UNCHANGED <<maxChunkSize, wireVars, proxyVars, connIn, connInClosed, srvBuffer,
                   threads, conn_lock, connOut, files>>

\* server.py handleClient: every t.join() has returned; the with block closes conn
ServerClose ==
    /\ srvState = "joining"
    /\ \A t \in 1..Len(threads) : threads[t].pc = "done"
    /\ srvState' = "closed"
    /\ UNCHANGED <<maxChunkSize, wireVars, proxyVars, connIn, connInClosed, srvBuffer,
                   threads, conn_lock, connOut, files>>

\* server.py handleRequestThread up to the choice of the reply path.  No step
\* of this connection's specifications writes the files, so that the handler
\* reads them (os.path.exists, getmtime, open) as one step would
HandleRequestThread(t) ==
    /\ threads[t].pc = "start"
    /\ LET x == extractStreamIdAndCleanRequest(threads[t].request)
           resp == ServerResponse(x.request_clean, files)
       IN  threads' = [threads EXCEPT ![t] =
               [@ EXCEPT !.framed = x.framed, !.streamId = x.stream_id,
                         !.response = resp,
                         !.pc = IF ~x.framed THEN "regular"
                                ELSE IF Len(resp) = 0 THEN "done" ELSE "framed"]]
    /\ UNCHANGED <<maxChunkSize, wireVars, proxyVars, connIn, connInClosed, srvBuffer,
                   srvState, conn_lock, connOut, files>>

\* "with lock:" can enter when no thread holds the lock
LockFreeAlways(lock) == TRUE

LockFree(lock) == lock = 0

\* the bytes of the write thread t is about to make
NextWrite(t) ==
    IF threads[t].framed
    THEN FrameAt(threads[t].streamId, threads[t].response, threads[t].i, maxChunkSize)
    ELSE threads[t].response

\* sendFramedResponse / sendRegularResponse: "with lock:" is entered
AcquireLock(t) ==
    /\ threads[t].pc \in {"framed", "regular"}
    /\ LockFree(conn_lock)
    /\ conn_lock' = t
    /\ threads' = [threads EXCEPT ![t] =
           [@ EXCEPT !.pc = "writing", !.pending = NextWrite(t), !.writes = @ + 1]]
    /\ UNCHANGED <<maxChunkSize, wireVars, proxyVars, connIn, connInClosed, srvBuffer,
                   srvState, connOut, files>>

\* conn.sendall: the next byte of the write reaches the connection
SendAll(t) ==
    /\ threads[t].pc = "writing"
    /\ threads[t].pending # <<>>
    /\ srvState # "closed"
    /\ connOut' = Append(connOut, [sym |-> Head(threads[t].pending), by |-> t,
                                   write |-> threads[t].writes])
    /\ threads' = [threads EXCEPT ![t] = [@ EXCEPT !.pending = Tail(@)]]
    /\ UNCHANGED <<maxChunkSize, wireVars, proxyVars, connIn, connInClosed, srvBuffer,
                   srvState, conn_lock, files>>

\* conn.sendall on the closed socket raises OSError: the rest of the write is not
\* sent and the exception leaves the with block, which releases the lock;
\* sendFramedResponse catches it and goes on with the next frame,
\* sendRegularResponse lets it end the thread
SendAllRaises(t) ==
    /\ threads[t].pc = "writing"
    /\ threads[t].pending # <<>>
    /\ srvState = "closed"
    /\ conn_lock' = 0
    /\ threads' = [threads EXCEPT ![t] =
           [@ EXCEPT !.pending = <<>>,
                     !.failed = @ \cup {threads[t].writes},
                     !.i = IF threads[t].framed THEN @ + maxChunkSize ELSE @,
                     !.pc = IF threads[t].framed
                               /\ threads[t].i + maxChunkSize < Len(threads[t].response)
                            THEN "framed" ELSE "done"]]
    /\ UNCHANGED <<maxChunkSize, wireVars, proxyVars, connIn, connInClosed, srvBuffer,
                   srvState, connOut, files>>

\* a handler that keeps the lock from its first frame to its last
ReleaseLockAtEnd(t) ==
    /\ threads[t].pc = "writing"
    /\ threads[t].pending = <<>>
    /\ conn_lock' = IF threads[t].framed
                       /\ threads[t].i + maxChunkSize < Len(threads[t].response)
                    THEN t ELSE 0
    /\ threads' = [threads EXCEPT ![t] =
           [@ EXCEPT !.i = IF threads[t].framed THEN @ + maxChunkSize ELSE @,
                     !.pc = IF threads[t].framed
                               /\ threads[t].i + maxChunkSize < Len(threads[t].response)
                            THEN "framed" ELSE "done"]]
    /\ UNCHANGED <<maxChunkSize, wireVars, proxyVars, connIn, connInClosed, srvBuffer,
                   srvState, connOut, files>>

\* sendall has returned: the with block is left, and the loop goes on or ends
ReleaseLock(t) ==
    /\ threads[t].pc = "writing"
    /\ threads[t].pending = <<>>
    /\ conn_lock' = 0
    /\ threads' = [threads EXCEPT ![t] =
           [@ EXCEPT !.i = IF threads[t].framed THEN @ + maxChunkSize ELSE @,
                     !.pc = IF threads[t].framed
                               /\ threads[t].i + maxChunkSize < Len(threads[t].response)
                            THEN "framed" ELSE "done"]]
    /\ UNCHANGED <<maxChunkSize, wireVars, proxyVars, connIn, connInClosed, srvBuffer,
                   srvState, connOut, files>>

NextServer ==
    \/ ServerRecv
    \/ ServerRecvRaises
    \/ StartThread
    \/ PeerShutdown
    \/ ServerRecvEof
    \/ ServerClose
    \/ \E t \in 1..Len(threads) : HandleRequestThread(t)
    \/ \E t \in 1..Len(threads) : AcquireLock(t)
    \/ \E t \in 1..Len(threads) : SendAll(t)
    \/ \E t \in 1..Len(threads) : SendAllRaises(t)
    \/ \E t \in 1..Len(threads) : ReleaseLock(t)

SpecServer == InitServer /\ [][NextServer]_vars

\* SpecSplit: the same connection when the peer's bytes can be cut anywhere, also
\* between the two line ends of the blank line that ends a request
InitSplit ==
    /\ maxChunkSize \in ServerChunkSizes
    /\ connIn \in {ByLineEnds(r) : r \in UNION {RequestRuns(n) : n \in 1..MaxRequests}}
    /\ connInClosed = FALSE /\ srvBuffer = <<>> /\ srvState = "reading"
    /\ threads = <<>> /\ conn_lock = 0 /\ connOut = <<>>
    /\ files = OriginFiles
    /\ WireIdle
    /\ ProxyIdle

SpecSplit == InitSplit /\ [][NextServer]_vars

-----------------------------------------------------------------------------
(* Claims about the server connection *)

\* the bytes that write n of thread t has put on the connection, in order
WrittenBy(t, n) ==
    LET own == SelectSeq(connOut, LAMBDA e : e.by = t /\ e.write = n)
    IN  [j \in 1..Len(own) |-> own[j].sym]

\* the bytes write n of thread t has to put on the connection
WriteText(t, n) ==
    IF threads[t].framed
    THEN FrameAt(threads[t].streamId, threads[t].response, (n - 1) * maxChunkSize,
                 maxChunkSize)
    ELSE threads[t].response

\* the writes of thread t whose sendall has returned
CompletedWrites(t) ==
    {n \in 1..threads[t].writes :
        /\ n \notin threads[t].failed
        /\ threads[t].pc # "writing" \/ n < threads[t].writes}

\* C2: at most one handler thread is inside a write to the connection, and the
\* bytes of every frame and of every unframed response lie together on the
\* connection, in order, with no byte of another write between them; a write
\* that returned has put its whole text there, a write that raised on the
\* closed socket only a part of it.  (The bytes of a write lie together when no
\* two of the places where the writer changes belong to one write.)
WriteSerialised ==
    /\ Cardinality({t \in 1..Len(threads) : threads[t].pc = "writing"}) <= 1
    /\ LET starts == {k \in 1..Len(connOut) :
                          \/ k = 1
                          \/ connOut[k].by # connOut[k - 1].by
                          \/ connOut[k].write # connOut[k - 1].write}
       IN  \A i, k \in starts :
               (connOut[i].by = connOut[k].by /\ connOut[i].write = connOut[k].write) =>
                   i = k
    /\ \A t \in 1..Len(threads) : \A n \in 1..threads[t].writes :
          LET done == WrittenBy(t, n)
              text == WriteText(t, n)
          IN  /\ Len(done) <= Len(text)
              /\ done = SubSeq(text, 1, Len(done))
              /\ n \in CompletedWrites(t) => done = text
              /\ n \in threads[t].failed => done # text

\* C2 witness: two handler threads have finished with every write returned, and
\* a frame of one lies between two frames of the other on the connection
WriteSerialisedWitness ==
    /\ Len(threads) >= 2
    /\ \A t \in 1..Len(threads) : threads[t].pc = "done" /\ threads[t].failed = {}
    /\ \E i, j, k \in 1..Len(connOut) :
          /\ i < j /\ j < k
          /\ connOut[i].by = connOut[k].by
          /\ connOut[j].by # connOut[i].by

\* where the first line of the request of thread t ends: the place of its first
\* line end, or one past the request when it has none
FirstLineEnd(t) ==
    LET ends == {i \in 1..Len(threads[t].request) :
                    threads[t].request[i] \in WhiteSpace}
    IN  IF ends = {} THEN Len(threads[t].request) + 1
        ELSE CHOOSE i \in ends : \A j \in ends : i <= j

\* the request of handler thread t starts with a line "STREAM-ID: <integer>"
HasStreamIdHeader(t) ==
    /\ Len(threads[t].request) >= 1
    /\ threads[t].request[1] = STREAM_ID_HEADER
    /\ IsIntText(SubSeq(threads[t].request, 2, FirstLineEnd(t) - 1))

\* the id that header names
HeaderStreamId(t) ==
    StrToInt(SubSeq(threads[t].request, 2, FirstLineEnd(t) - 1))

\* the request of thread t after its first line: nothing when the first line is
\* the whole request
AfterFirstLine(t) ==
    IF FirstLineEnd(t) > Len(threads[t].request) THEN <<>>
    ELSE IF threads[t].request[FirstLineEnd(t)] = BLANKLINE
    THEN <<CRLF>> \o Tail0(threads[t].request, FirstLineEnd(t))
    ELSE Tail0(threads[t].request, FirstLineEnd(t))

\* f"{stream_id}|{end_stream}|": a frame up to its payload
FrameHead(sid, end_stream) ==
    IntToStr(sid) \o <<DELIM>> \o IntToStr(end_stream) \o <<DELIM>>

\* the texts of the writes of thread t
WritesOf(t) == [n \in 1..threads[t].writes |-> WrittenBy(t, n)]

\* of the texts sent, those of the writes in done, in the order of the writes
InOrder(sent, done) ==
    LET nth(k) == CHOOSE n \in done : Cardinality({m \in done : m < n}) = k - 1
    IN  [k \in 1..Cardinality(done) |-> sent[nth(k)]]

\* the payloads of frames whose text up to the payload has headLen bytes
PayloadsWritten(frames, headLen) ==
    [k \in 1..Len(frames) |-> Tail0(frames[k], headLen)]

\* every handler that has left its start is on the reply path that the first
\* line of its request selects, and has written only what that path writes: a
\* write that has returned is a frame "id|0|payload" or "id|1|payload" with the
\* id of the header, and the payloads, in order, are the response from its start
ReplyPathTaken ==
    \A t \in 1..Len(threads) :
        threads[t].pc # "start" =>
            LET done == CompletedWrites(t)
                sent == WritesOf(t)
            IN  IF HasStreamIdHeader(t)
                THEN LET sid == HeaderStreamId(t)
                         more == FrameHead(sid, 0)
                         last == FrameHead(sid, 1)
                         payloads ==
                             Join(PayloadsWritten(InOrder(sent, done), Len(more)))
                     IN  /\ threads[t].framed
                         /\ threads[t].streamId = sid
                         /\ threads[t].response =
                                ServerResponse(AfterFirstLine(t), files)
                         /\ \A n \in done :
                                StartsWith(sent[n], more) \/ StartsWith(sent[n], last)
                         /\ threads[t].failed = {} =>
                                payloads = SubSeq(threads[t].response, 1, Len(payloads))
                         /\ (threads[t].pc = "done" /\ threads[t].failed = {}) =>
                                /\ done = 1..threads[t].writes
                                /\ payloads = threads[t].response
                ELSE /\ ~threads[t].framed
                     /\ threads[t].response = ServerResponse(threads[t].request, files)
                     /\ threads[t].writes <= 1
                     /\ \A n \in done : sent[n] = threads[t].response
                     /\ (threads[t].pc = "done" /\ threads[t].failed = {}) => done = {1}

\* C11: at every moment of every run, a handler whose request starts with a
\* STREAM-ID header has recorded the id, processes the request without the header
\* line, and writes the response only as frames that carry the id; a handler
\* whose request has no STREAM-ID header writes the response as exactly one
\* unframed write.  (A write made after the server has closed the socket raises
\* and sends nothing more; the paths are the same.)
ServerReplyPath == []ReplyPathTaken

\* C11 witness: on one connection a handler whose request was the STREAM-ID line
\* alone, with an id of two digits, has sent its response as several frames, a
\* handler has sent its response unframed for a request without the header and
\* another for a request whose STREAM-ID line names no integer
ServerReplyPathWitness ==
    \E t, u \in 1..Len(threads) :
        /\ threads[t].pc = "done" /\ threads[u].pc = "done"
        /\ threads[t].failed = {} /\ threads[u].failed = {}
        /\ HasStreamIdHeader(t) /\ threads[t].writes >= 2
        /\ HeaderStreamId(t) >= 10
        /\ AfterFirstLine(t) = <<>>
        /\ ~HasStreamIdHeader(u) /\ threads[u].writes = 1
        /\ threads[u].request[1] = STREAM_ID_HEADER

\* C19: a handler holds the connection's lock exactly while it writes one frame
\* or one unframed response: not while it produces the response, not between two
\* of its frames and not after its last; the read loop never takes the lock.
LockScope ==
    /\ conn_lock \in 0..Len(threads)
    /\ \A t \in 1..Len(threads) :
          /\ (conn_lock = t) <=> (threads[t].pc = "writing")
          /\ conn_lock = t =>
                 WrittenBy(t, threads[t].writes) \o threads[t].pending
                     = WriteText(t, threads[t].writes)
          /\ threads[t].pc = "start" => threads[t].writes = 0

\* C19 witness: between two frames of one handler, another handler holds the lock
\* and is writing a frame of a different stream, while the read loop still reads
LockScopeWitness ==
    \E t, u \in 1..Len(threads) :
        /\ threads[t].pc = "framed" /\ threads[t].writes >= 1
        /\ conn_lock = u /\ threads[u].framed
        /\ threads[u].streamId # threads[t].streamId
        /\ threads[u].pending # <<>>
        /\ Len(WrittenBy(u, threads[u].writes)) > 0
        /\ srvState = "reading"

\* the requests split off so far, each with the blank line that ended it
Dispatched ==
    Join([t \in 1..Len(threads) |-> ByLineEnds(threads[t].request) \o <<CRLF, CRLF>>])

\* the bytes of the connection: those split off, those buffered, those to come
InboundText == Dispatched \o ByLineEnds(srvBuffer) \o ByLineEnds(connIn)

\* the text holds a blank line
HasBlankLine(text) ==
    LET e == ByLineEnds(text)
    IN  \E i \in 1..(Len(e) - 1) : e[i] = CRLF /\ e[i + 1] = CRLF

\* C21: however the inbound bytes are cut into recv calls, every request that a
\* blank line ends is split off and handed to a new thread once and in wire
\* order: on every step the threads started before keep their requests and
\* their places, the bytes of the connection (split off, buffered, to come)
\* stay the same text in the same order, each request split off holds no blank
\* line and goes to one new thread at its start, no recv is made while a
\* request that has its blank line waits in the buffer, and the read loop ends
\* only when no request with its blank line is left on the connection.
RequestSplitting ==
    [][/\ Len(threads') >= Len(threads)
       /\ \A t \in 1..Len(threads) : threads'[t].request = threads[t].request
       /\ InboundText' = InboundText
       /\ \A t \in (Len(threads) + 1)..Len(threads') :
              /\ threads'[t] = NewThread(threads'[t].request)
              /\ ~HasBlankLine(threads'[t].request)
       /\ connIn' # connIn => ~HasBlankLine(srvBuffer)
       /\ (srvState = "reading" /\ srvState' # "reading") =>
              ~HasBlankLine(srvBuffer' \o connIn')]_vars

\* C22: at every moment, if the server has closed the connection then the peer
\* has closed its side and every handler thread started for the connection has
\* ended, so that no handler is inside a write to the closed connection.
ConnectionLifetime ==
    srvState = "closed" =>
        /\ connInClosed
        /\ \A t \in 1..Len(threads) : threads[t].pc = "done"

-----------------------------------------------------------------------------
(* SpecProxy: the client threads of the proxy (handleClient), the cache and the    *)
(* stream id generator they share.  The upstream's reply to a request is any of    *)
(* UpstreamReplies: what receiveFramedResponse returned.                           *)

ProxyThreads == 1..MaxClients

\* what conn.recv returns on a client connection: a request line, or nothing
ClientRequests ==
    {"GET / HTTP/1.1", "GET /test.html HTTP/1.0", ""}

\* f"GET {path} {VERSION}", for the paths of RequestPaths computed once
UpstreamLineKnown == [path \in RequestPaths |-> "GET " \o path \o " " \o VERSION]

\* f"GET {path} {VERSION}"
UpstreamLine(path) ==
    IF path \in RequestPaths THEN UpstreamLineKnown[path]
    ELSE "GET " \o path \o " " \o VERSION

\* createRequest that attaches the header whether or not an entry is cached
createRequestAlways(headers, cached) ==
    headers \o <<CRLF, IF_MODIFIED_SINCE, cached.last_modified>> \o <<BLANKLINE>>

\* proxy.py createRequest
createRequest(headers, cached) ==
    (IF cached.present
     THEN headers \o <<CRLF, IF_MODIFIED_SINCE, cached.last_modified>>
     ELSE headers) \o <<BLANKLINE>>

\* next(stream_id_gen) that leaves the counter where it is
CounterStuck(counter) == counter

\* itertools.count: the counter after next()
CounterNext(counter) == counter + 1

\* the connection a proxy thread opens to the origin for its request
\* (SpecRelay): the origin's handler thread for the request (where it is, its
\* stream id, the request handleRequest got, the place in lines of the header
\* line its loop looks at next, the response, the loop variable i of
\* sendFramedResponse), the bytes in flight to the proxy, and buffer and
\* responseChunks of receiveFramedResponse
NoConnection ==
    [origin |-> "waiting", framed |-> FALSE, stream_id |-> 0, request |-> <<>>,
     line |-> 0, response |-> <<>>, i |-> 0, wire |-> <<>>, buffer |-> <<>>,
     chunks |-> <<>>]

\* a thread of the proxy with no client: entry is the entry handle200 has built
\* and not yet stored, out is the value handleRequest returns, which
\* conn.sendall writes to the client; originContent is history: what the file
\* held when the origin compared its mtime with the date of the request
IdleThread ==
    [pc |-> "idle", line |-> "", fileName |-> "", cached |-> NoEntry,
     proxyRequest |-> <<>>, streamId |-> 0, response |-> <<>>, entry |-> NoEntry,
     out |-> <<>>, originContent |-> <<>>, up |-> NoConnection]

InitProxy ==
    /\ maxChunkSize = 1
    /\ cache = [f \in FileNames |-> NoEntry]
    /\ stream_id_gen = 1
    /\ clock = 0
    /\ px = [t \in ProxyThreads |-> IdleThread]
    /\ issued = <<>>
    /\ WireIdle
    /\ ServerIdle

\* proxy.py handleClient's recv and handleRequest up to createRequest, or up to
\* its return when the request line is not answered from the upstream
ClientConnectWith(t, lines, limit) ==
    /\ px[t].pc = "idle"
    /\ stream_id_gen + Cardinality({u \in ProxyThreads : px[u].pc = "built"}) <= limit
    /\ \E line \in lines :
          LET fields == Split(line)
              fileName == FileNameOf(fields[2])
              cached == IF fileName \in DOMAIN cache THEN cache[fileName] ELSE NoEntry
          IN  px' = [px EXCEPT ![t] =
                  IF Len(fields) # 3
                  THEN [IdleThread EXCEPT !.pc = "handled",
                            !.out = handle500(UnpackError(Len(fields)))]
                  ELSE IF fields[3] # VERSION
                  THEN [IdleThread EXCEPT !.pc = "handled", !.out = handle505]
                  ELSE [IdleThread EXCEPT !.pc = "built", !.line = line,
                            !.fileName = fileName, !.cached = cached,
                            !.proxyRequest =
                                createRequest(<<UpstreamLine(fields[2])>>, cached)]]
    /\ UNCHANGED <<maxChunkSize, wireVars, serverVars, cache, stream_id_gen, clock,
                   issued>>

\* a client of SpecProxy connects
ClientConnect(t) == ClientConnectWith(t, ClientRequests, MaxIds)

\* proxy.py sendRequest: streamId = next(stream_id_gen), and the framed request is sent
AllocateStreamId(t) ==
    /\ px[t].pc = "built"
    /\ px' = [px EXCEPT ![t] = [@ EXCEPT !.pc = "sent", !.streamId = stream_id_gen]]
    /\ issued' = Append(issued, stream_id_gen)
    /\ stream_id_gen' = CounterNext(stream_id_gen)
    /\ UNCHANGED <<maxChunkSize, wireVars, serverVars, cache, clock>>

\* proxy.py sendRequest: receiveFramedResponse returns, and sendRequest with it
\* (its local streamId is gone)
ReceiveReply(t) ==
    /\ px[t].pc = "sent"
    /\ \E r \in UpstreamReplies :
          px' = [px EXCEPT ![t] = [@ EXCEPT !.pc = "answered", !.response = r,
                                           !.streamId = 0]]
    /\ UNCHANGED <<maxChunkSize, wireVars, serverVars, cache, stream_id_gen, clock,
                   issued>>

\* proxy.py handleRequest from the status parse on: up to its return when
\* nothing is stored (handle304 reads the cache as it is now), and up to
\* handle200's formatdate, which reads the clock, when the reply is stored; the
\* entry is built, the store is still to come, and of the locals the thread
\* keeps what handle200 was called with
Dispatch(t) ==
    /\ px[t].pc = "answered"
    /\ LET r == HandleReply(px[t].fileName, px[t].cached, px[t].response, cache, clock)
       IN  px' = [px EXCEPT ![t] =
               IF ~r.raised /\ r.store.present
               THEN [IdleThread EXCEPT !.pc = "storing", !.fileName = px[t].fileName,
                         !.response = px[t].response, !.entry = r.store]
               ELSE [IdleThread EXCEPT !.pc = "handled",
                         !.out = ReplyOut(px[t].fileName, px[t].cached,
                                          px[t].response, cache, clock)]]
    /\ UNCHANGED <<maxChunkSize, wireVars, serverVars, cache, stream_id_gen, clock,
                   issued>>

\* proxy.py handle200, the store and the return: the entry built when the clock
\* was read goes into the cache as the cache is now, and handleRequest returns
\* createResponse(200, body)
CacheStore(t) ==
    /\ px[t].pc = "storing"
    /\ cache' = ReplyCache(px[t].fileName, px[t].entry, cache)
    /\ px' = [px EXCEPT ![t] =
           [IdleThread EXCEPT !.pc = "handled",
                              !.out = createResponse(200, px[t].entry.content)]]
    /\ UNCHANGED <<maxChunkSize, wireVars, serverVars, stream_id_gen, clock, issued>>

\* proxy.py handleClient: conn.sendall(response) writes out to the client, the
\* with block closes the connection and the thread ends
ClientSend(t) ==
    /\ px[t].pc = "handled"
    /\ px' = [px EXCEPT ![t] = IdleThread]
    /\ UNCHANGED <<maxChunkSize, wireVars, serverVars, cache, stream_id_gen, clock,
                   issued>>

\* time passes
Tick ==
    /\ clock < MaxClock
    /\ clock' = clock + 1
    /\ UNCHANGED <<maxChunkSize, wireVars, serverVars, cache, stream_id_gen, px, issued>>

NextProxy ==
    \/ \E t \in ProxyThreads : ClientConnect(t)
    \/ \E t \in ProxyThreads : AllocateStreamId(t)
    \/ \E t \in ProxyThreads : ReceiveReply(t)
    \/ \E t \in ProxyThreads : Dispatch(t)
    \/ \E t \in ProxyThreads : CacheStore(t)
    \/ \E t \in ProxyThreads : ClientSend(t)
    \/ Tick

SpecProxy == InitProxy /\ [][NextProxy]_vars

-----------------------------------------------------------------------------
(* Claims about the proxy *)

\* C3: the stream ids start at 1, each id handed out is greater than every id
\* handed out before it, and no two requests in flight (sent, their sendRequest
\* not yet returned) carry the same id; the id a request carries is one of the
\* ids handed out.
StreamIdsUnique ==
    /\ Len(issued) > 0 => issued[1] = 1
    /\ \A i \in 1..Len(issued) : \A j \in (i + 1)..Len(issued) : issued[i] < issued[j]
    /\ \A t \in ProxyThreads : \A u \in ProxyThreads \ {t} :
          (px[t].pc = "sent" /\ px[u].pc = "sent") => px[t].streamId # px[u].streamId
    /\ \A t \in ProxyThreads :
          px[t].pc = "sent" => \E i \in 1..Len(issued) : issued[i] = px[t].streamId

\* C3 witness: two sendRequest calls are in flight at once, after an earlier one
StreamIdsUniqueWitness ==
    /\ \A t \in ProxyThreads : px[t].pc = "sent"
    /\ Len(issued) > MaxClients

\* handleRequest of thread t, which has its upstream reply, returns in this step
Dispatches(t) == px[t].pc \in {"answered", "storing"} /\ px'[t].pc = "handled"

\* the Last-Modified value handle200 finds in a reply; "" when it finds none
StampOf(resp) == LastModifiedOf(SplitReply(resp).headers).value

\* the entry handle200 builds for a reply of status 200 when its formatdate
\* reads the time now
StoredEntry(resp, now) ==
    CacheEntry(IF StampOf(resp) # "" THEN StampOf(resp) ELSE formatdate(now),
               SplitReply(resp).body)

\* C5: when the upstream reply for f has status 200, the proxy stores for f the
\* body of the reply with the reply's Last-Modified value (when the reply has
\* none: a time the clock showed while the reply was handled) and relays a 200
\* response with exactly that body.
FreshFetch ==
    [][\A t \in ProxyThreads :
          (Dispatches(t) /\ StatusOf(px[t].response) = 200) =>
              /\ \E n \in 0..clock :
                     cache'[px[t].fileName] = StoredEntry(px[t].response, n)
              /\ px'[t].out =
                     <<StatusLine(200), BLANKLINE>> \o SplitReply(px[t].response).body]_vars

\* C6: a 304 reply to a request sent with a conditional header is relayed as a
\* 200 response whose body is the content cached when the request was built.
RevalidatedFetch ==
    [][\A t \in ProxyThreads :
          (Dispatches(t) /\ StatusOf(px[t].response) = 304
               /\ Find(px[t].proxyRequest, IF_MODIFIED_SINCE) # 0) =>
              px'[t].out = <<StatusLine(200), BLANKLINE>> \o px[t].cached.content]_vars

\* thread t builds its upstream request in this step
Builds(t) == px[t].pc = "idle" /\ px'[t].pc = "built"

\* C7: the upstream request carries If-Modified-Since exactly when the cache holds
\* an entry for the filename as the request is built, with that entry's
\* lastModified as its value.
ConditionalFlow ==
    [][\A t \in ProxyThreads :
          Builds(t) =>
              LET req == px'[t].proxyRequest
                  k == Find(req, IF_MODIFIED_SINCE)
                  entry == cache[px'[t].fileName]
              IN  /\ (k # 0) <=> entry.present
                  /\ entry.present =>
                         (k < Len(req) /\ req[k + 1] = entry.last_modified)
                  /\ req[1] = "GET / HTTP/1.1"
                  /\ req[Len(req)] = BLANKLINE]_vars

\* C7 witness: after a 200 fetch stored an entry stamped with the current time, a
\* request has been built that carries that stamp
ConditionalFlowWitness ==
    \E t \in ProxyThreads :
        /\ px[t].pc = "built"
        /\ cache[DEFAULT_FILE].present
        /\ px[t].proxyRequest =
               <<"GET / HTTP/1.1", CRLF, IF_MODIFIED_SINCE, formatdate(1), BLANKLINE>>
        /\ cache[DEFAULT_FILE].last_modified = formatdate(1)

\* C8: a 304 reply for a filename the cache holds no entry for is answered with a
\* 500 response that carries diagnostic text; the 304 is not relayed.
CacheMissOn304 ==
    [][\A t \in ProxyThreads :
          (Dispatches(t) /\ StatusOf(px[t].response) = 304
               /\ ~cache[px[t].fileName].present) =>
              /\ px'[t].out # px[t].response
              /\ Len(px'[t].out) > 3
              /\ px'[t].out[1] = StatusLine(500)]_vars

\* handle200 reaches its store for the reply: the reply has status 200, a blank
\* line, and ": " in its Last-Modified line if it has one
Stores(resp) ==
    /\ StatusOf(resp) = 200
    /\ ~SplitReply(resp).raised
    /\ ~LastModifiedOf(SplitReply(resp).headers).raised

\* the entries one single store can write: the body of a 200 reply together with that
\* reply's Last-Modified value, or with a time of the clock when it has none
OneStorePairs ==
    {StoredEntry(r, n) : r \in {u \in UpstreamReplies : Stores(u)}, n \in 0..MaxClock}

\* every entry in the cache and every entry a thread got from a lookup is the
\* (lastModified, content) pair of one store
EntriesWhole ==
    /\ \A f \in FileNames : cache[f].present => cache[f] \in OneStorePairs
    /\ \A t \in ProxyThreads : px[t].cached.present => px[t].cached \in OneStorePairs

\* C16: a lookup returns the entry of the last store completed for the filename,
\* both fields from that one store; a store replaces both fields of the entry it
\* finds, with the entry its thread built for its reply (the reply's
\* Last-Modified value or a time the clock showed, and the reply's body); the
\* cache changes in no other step; no lookup sees the lastModified of one store
\* with the content of another, however the stores and lookups of the threads
\* interleave.
CacheStoreLookup ==
    [][/\ EntriesWhole /\ EntriesWhole'
       /\ \A t \in ProxyThreads :
             /\ Builds(t) => px'[t].cached = cache[px'[t].fileName]
             /\ (Dispatches(t) /\ Stores(px[t].response)) =>
                    /\ cache'[px[t].fileName] = px[t].entry
                    /\ \E n \in 0..clock :
                           px[t].entry = StoredEntry(px[t].response, n)
             /\ (Dispatches(t) /\ ~Stores(px[t].response)) => cache' = cache
       /\ (\A t \in ProxyThreads : ~Dispatches(t)) => cache' = cache]_vars

\* C16 witness: a thread holds the entry of an earlier store while the cache holds
\* the entry of a later one, and the two differ in both fields
CacheStoreLookupWitness ==
    \E t \in ProxyThreads :
        /\ px[t].pc \in {"built", "sent", "answered"}
        /\ px[t].cached.present
        /\ cache[px[t].fileName].present
        /\ px[t].cached.content # cache[px[t].fileName].content
        /\ px[t].cached.last_modified # cache[px[t].fileName].last_modified

\* handleRequest of thread t returns in this step without asking the upstream
AnswersAtOnce(t) == px[t].pc = "idle" /\ px'[t].pc = "handled"

\* C20: the cache changes only while a reply of status 200 is handled, and then
\* only in the entry of the filename asked for; a 304, any other status (relayed as
\* it came), a 505 and a 500 leave the cache as it is; no entry is ever removed.
CacheFrame ==
    [][/\ \A f \in FileNames :
             /\ cache'[f] # cache[f] =>
                    \E t \in ProxyThreads :
                        /\ Dispatches(t)
                        /\ StatusOf(px[t].response) = 200
                        /\ px[t].fileName = f
             /\ cache[f].present => cache'[f].present
       /\ \A t \in ProxyThreads :
             /\ (Dispatches(t) /\ StatusOf(px[t].response) # 200) => cache' = cache
             /\ (Dispatches(t) /\ StatusOf(px[t].response) \notin {-1, 200, 304}) =>
                    px'[t].out = px[t].response
             /\ (Dispatches(t) /\ px'[t].out[1] = StatusLine(500)) => cache' = cache
             /\ AnswersAtOnce(t) =>
                    (cache' = cache /\ px'[t].out[1] \in {StatusLine(505), StatusLine(500)})]_vars

\* C20 witness: with an entry in the cache, handleRequest has returned a 404 reply
\* as it came to one thread and a 505 to another, and the entry is still there
CacheFrameWitness ==
    /\ cache[DEFAULT_FILE].present
    /\ \E t \in ProxyThreads :
          /\ px[t].pc = "handled"
          /\ px[t].out = ServerCreateResponse(404, <<StatusBody(404)>>)
    /\ \E t \in ProxyThreads : px[t].pc = "handled" /\ px[t].out = handle505

-----------------------------------------------------------------------------
(* SpecRelay: the proxy together with the origin server.  Every upstream request   *)
(* of the proxy goes to the origin on a connection of its own (sendRequest); the   *)
(* origin's handler thread produces the response with server.py handleRequest      *)
(* against the origin's files, which it reads at up to three moments (whether the  *)
(* file is there, its mtime, its content) while the file can be written between    *)
(* them, and sends it frame by frame; the proxy's receiveFramedResponse reads the  *)
(* bytes in receive calls of any size.                                             *)

\* what the clients of the relay ask for
RelayRequests ==
    {"GET /test.html HTTP/1.1", "GET /private.html HTTP/1.1", "GET /private.html HTTP/1.0"}

\* the contents the default file takes
FileTexts == {<<"a">>, <<"b">>}

\* proxy.py sendRequest: framedRequest
UpstreamText(streamId, request) ==
    <<STREAM_ID_HEADER>> \o IntToStr(streamId) \o <<CRLF>> \o request

InitRelay ==
    /\ maxChunkSize \in 1..MaxChunk
    /\ cache = [f \in FileNames |-> NoEntry]
    /\ stream_id_gen = 1
    /\ clock = 0
    /\ px = [t \in ProxyThreads |-> IdleThread]
    /\ issued = <<>>
    /\ WireIdle
    /\ connIn = <<>> /\ connInClosed = FALSE /\ srvBuffer = <<>>
    /\ srvState = "idle" /\ threads = <<>> /\ conn_lock = 0 /\ connOut = <<>>
    /\ files = OriginFiles

\* the threads of the proxy that serve the clients of the relay
RelayThreads == 1..MaxServed

\* a client of the relay connects
RelayConnect(t) == ClientConnectWith(t, RelayRequests, MaxRelay)

\* server.py handleClient and handleRequestThread on the connection of thread t:
\* the request is split off at its blank line and handed to a handler thread,
\* which finds the stream id and runs handleRequest up to os.path.exists; the
\* handler has its response when handleRequest returns there
OriginHandle(t) ==
    /\ px[t].pc = "sent"
    /\ px[t].up.origin = "waiting"
    /\ LET text == UpstreamText(px[t].streamId, px[t].proxyRequest)
           x == extractStreamIdAndCleanRequest(SubSeq(text, 1, FindBlank(text) - 1))
           early == ServerFindFile(x.request_clean, files)
       IN  px' = [px EXCEPT ![t] =
               [@ EXCEPT !.up = [NoConnection EXCEPT
                                    !.origin = IF early # <<>> THEN "sending"
                                               ELSE "found",
                                    !.framed = x.framed, !.stream_id = x.stream_id,
                                    !.request = x.request_clean,
                                    !.line = IF early # <<>> THEN 0 ELSE 2,
                                    !.response = early]]]
    /\ UNCHANGED <<maxChunkSize, wireVars, serverVars, cache, stream_id_gen, clock,
                   issued>>

\* server.py handleRequest on the connection of thread t, the loop over
\* lines[1:] up to and with its next If-Modified-Since line: handle304 reads
\* the mtime the file has now; its 304, or the 500 for what it raised, is the
\* response, and after None the loop goes on with the line that follows
OriginStat(t) ==
    /\ px[t].pc = "sent"
    /\ px[t].up.origin = "found"
    /\ LET up == px[t].up
           lines == LinesOf(up.request)
           file == files[FileNameOf(Split(lines[1])[2])]
           conditional == ConditionalLines(lines, up.line)
           i == CHOOSE i \in conditional : \A j \in conditional : i <= j
           r == ServerHandle304(file, lines[i])
       IN  /\ conditional # {}
           /\ px' = [px EXCEPT ![t] =
                  [@ EXCEPT !.up = IF r.raised
                                   THEN [up EXCEPT !.origin = "sending",
                                                   !.response = ServerHandle500(r.error)]
                                   ELSE IF r.out # <<>>
                                   THEN [up EXCEPT !.origin = "sending",
                                                   !.response = r.out]
                                   ELSE [up EXCEPT !.line = i + 1],
                            !.originContent = file.content]]
    /\ UNCHANGED <<maxChunkSize, wireVars, serverVars, cache, stream_id_gen, clock,
                   issued>>

\* server.py handleRequest on the connection of thread t, the loop has ended
\* with no response: handle200 opens the file and reads what it holds now
OriginRead(t) ==
    /\ px[t].pc = "sent"
    /\ px[t].up.origin = "found"
    /\ LET up == px[t].up
           lines == LinesOf(up.request)
           file == files[FileNameOf(Split(lines[1])[2])]
       IN  /\ ConditionalLines(lines, up.line) = {}
           /\ px' = [px EXCEPT ![t] =
                  [@ EXCEPT !.up = [up EXCEPT
                                      !.origin = "sending",
                                      !.response =
                                          ServerCreateResponse(200, file.content)]]]
    /\ UNCHANGED <<maxChunkSize, wireVars, serverVars, cache, stream_id_gen, clock,
                   issued>>

\* server.py sendFramedResponse on the connection of thread t: one iteration
\* (sendRegularResponse: the one write).  Once receiveFramedResponse has
\* returned the proxy has closed the connection, and what the origin does on it
\* changes nothing in the relay
OriginSend(t) ==
    /\ px[t].pc = "sent"
    /\ px[t].up.origin = "sending"
    /\ px[t].up.i < Len(px[t].up.response)
    /\ LET up == px[t].up
       IN  px' = [px EXCEPT ![t] = [@ EXCEPT !.up =
               IF up.framed
               THEN [up EXCEPT
                        !.wire = @ \o FrameAt(up.stream_id, up.response, up.i,
                                              maxChunkSize),
                        !.i = @ + maxChunkSize]
               ELSE [up EXCEPT !.wire = @ \o up.response, !.i = Len(up.response)]]]
    /\ UNCHANGED <<maxChunkSize, wireVars, serverVars, cache, stream_id_gen, clock,
                   issued>>

\* proxy.py receiveFramedResponse of thread t: one pass of the outer loop with a
\* recv that returns the first k bytes in flight; when the function returns,
\* sendRequest closes the connection
RelayRecv(t) ==
    /\ px[t].pc = "sent"
    /\ \E k \in 1..Len(px[t].up.wire) :
          LET up == px[t].up
              d == DrainBuffer(up.buffer \o SubSeq(up.wire, 1, k), up.chunks,
                               px[t].streamId)
          IN  px' = [px EXCEPT ![t] =
                  IF d.done
                  THEN [@ EXCEPT !.pc = "answered", !.response = Join(d.chunks),
                                 !.streamId = 0, !.up = NoConnection]
                  ELSE [@ EXCEPT !.up = [up EXCEPT !.wire = Tail0(up.wire, k),
                                                   !.buffer = d.buffer,
                                                   !.chunks = d.chunks]]]
    /\ UNCHANGED <<maxChunkSize, wireVars, serverVars, cache, stream_id_gen, clock,
                   issued>>

\* the default file is written with another content at some moment inside the
\* second that clock counts.  An HTTP date names a whole second; the mtime that
\* os.path.getmtime returns is that whole second when the file system keeps
\* whole seconds or the write falls on the start of the second, and lies
\* inside the second otherwise: then it is later than the date formatdate gives
\* in this second and not later than the date of the next, and mtime holds the
\* next whole second, which compares with every HTTP date as the mtime does.
\* A write never sets the mtime of the file back
ModifyFile ==
    /\ \E c \in FileTexts \ {files[DEFAULT_FILE].content}, m \in {clock, clock + 1} :
          /\ m >= files[DEFAULT_FILE].mtime
          /\ files' = [files EXCEPT ![DEFAULT_FILE] =
                          [@ EXCEPT !.content = c, !.mtime = m]]
    /\ UNCHANGED <<maxChunkSize, wireVars, proxyVars, connIn, connInClosed, srvBuffer,
                   srvState, threads, conn_lock, connOut>>

NextRelay ==
    \/ \E t \in RelayThreads : RelayConnect(t)
    \/ \E t \in RelayThreads : AllocateStreamId(t)
    \/ \E t \in RelayThreads : OriginHandle(t)
    \/ \E t \in RelayThreads : OriginStat(t)
    \/ \E t \in RelayThreads : OriginRead(t)
    \/ \E t \in RelayThreads : OriginSend(t)
    \/ \E t \in RelayThreads : RelayRecv(t)
    \/ \E t \in RelayThreads : Dispatch(t)
    \/ \E t \in RelayThreads : CacheStore(t)
    \/ \E t \in RelayThreads : ClientSend(t)
    \/ Tick
    \/ ModifyFile

SpecRelay == InitRelay /\ [][NextRelay]_vars

-----------------------------------------------------------------------------
(* Claims about the proxy and the origin together *)

\* C12: whatever the cache holds and whatever requests came before, the
\* response that handleRequest returns for a request for the restricted filename
\* that went to the origin has status 403; the cache holds no entry for the
\* restricted filename and handling the reply leaves the cache as it is.
RestrictedAlways403 ==
    [][\A t \in ProxyThreads :
          (Dispatches(t) /\ px[t].fileName = PRVIATE_FILE) =>
              /\ StatusOf(px'[t].out) = 403
              /\ ~cache[PRVIATE_FILE].present
              /\ cache' = cache]_vars

-----------------------------------------------------------------------------
(* SpecDemux: receiveFramedResponse of the proxy against any peer.  The peer puts  *)
(* frames on the connection, well-formed or not, for the awaited stream or for     *)
(* another one, and every receive call returns exactly the next frame.             *)

\* the payload of the k-th frame the peer sends
PayloadOf(k) == IF k % 2 = 1 THEN <<"a">> ELSE <<"b">>

\* the fields of the frames a peer may send while stream `expected` is awaited:
\* every stream id with end flag 0 or 1, the awaited id with end flag 2, the
\* awaited id written after a line end (a number for int()), and frames whose
\* stream id or end flag is not a number
PeerFrameFields(expected) ==
    {[sidStr |-> IntToStr(sid), endStr |-> <<e>>] : sid \in StreamIds, e \in {"0", "1"}}
        \cup {[sidStr |-> IntToStr(expected), endStr |-> <<"2">>],
              [sidStr |-> <<CRLF>> \o IntToStr(expected), endStr |-> <<"0">>],
              [sidStr |-> IntToStr(expected), endStr |-> <<"a">>],
              [sidStr |-> <<"a">>, endStr |-> <<"0">>]}

\* the text of a frame on the connection
FrameText(f) == f.sidStr \o <<DELIM>> \o f.endStr \o <<DELIM>> \o f.payload

\* the length of the frames k, k + 1, ... the peer has sent
RECURSIVE TextLenFrom(_)
TextLenFrom(k) ==
    IF k > Len(framesSent) THEN 0
    ELSE Len(FrameText(framesSent[k])) + TextLenFrom(k + 1)

\* the index of the first frame not yet received
NextFrameIndex ==
    CHOOSE k \in 1..(Len(framesSent) + 1) : TextLenFrom(k) = Len(wire)

InitDemux ==
    /\ maxChunkSize = 1
    /\ response = <<>> /\ sendOffset = 0 /\ othersSent = 0
    /\ stream_id \in StreamIds
    /\ framesSent = <<>> /\ wire = <<>> /\ peerClosed = FALSE
    /\ buffer = <<>> /\ responseChunks = <<>> /\ rxState = "receiving"
    /\ received = <<>> /\ answer = <<>> /\ clientOut = <<>>
    /\ ProxyIdle
    /\ ServerIdle

\* the peer writes one more frame; nothing is written once the proxy has closed
\* the connection (sendRequest leaves its with block when the function returns)
PeerFrame ==
    /\ Len(framesSent) < MaxFrames
    /\ ~peerClosed
    /\ rxState = "receiving"
    /\ \E h \in PeerFrameFields(stream_id) :
          LET f == [sidStr |-> h.sidStr, endStr |-> h.endStr,
                    payload |-> PayloadOf(Len(framesSent) + 1)]
          IN  /\ framesSent' = Append(framesSent, f)
              /\ wire' = wire \o FrameText(f)
    /\ UNCHANGED <<maxChunkSize, response, stream_id, sendOffset, othersSent, peerClosed,
                   buffer, responseChunks, rxState, received, answer, clientOut,
                   proxyVars, serverVars>>

\* proxy.py receiveFramedResponse: one pass of the outer loop with a recv that
\* returns exactly the next frame the peer sent
DemuxRecvFrame ==
    /\ rxState = "receiving"
    /\ wire # <<>>
    /\ LET n == Len(FrameText(framesSent[NextFrameIndex]))
           d == DrainBuffer(buffer \o SubSeq(wire, 1, n), responseChunks, stream_id)
       IN  /\ wire' = Tail0(wire, n)
           /\ buffer' = d.buffer
           /\ responseChunks' = d.chunks
           /\ rxState' = IF d.done THEN "returned" ELSE "receiving"
           /\ received' = IF d.done THEN Join(d.chunks) ELSE received
    /\ UNCHANGED <<maxChunkSize, response, stream_id, sendOffset, framesSent, othersSent,
                   peerClosed, answer, clientOut, proxyVars, serverVars>>

NextDemux ==
    \/ PeerFrame
    \/ DemuxRecvFrame
    \/ PeerClose
    \/ ProxyRecvEof

SpecDemux == InitDemux /\ [][NextDemux]_vars

-----------------------------------------------------------------------------
(* Claims about the demultiplexer *)

\* the frames received so far
FramesReceived == SubSeq(framesSent, 1, NextFrameIndex - 1)

\* a receive call returns in this step, and the frame it returns
Receives == rxState = "receiving" /\ Len(wire') < Len(wire)
FrameReceived == framesSent[NextFrameIndex]

\* the fields of a frame are numbers / name the awaited stream
NumbersIn(f) == IsIntText(f.sidStr) /\ IsIntText(f.endStr)
ForAwaited(f) == NumbersIn(f) /\ StrToInt(f.sidStr) = stream_id

\* C13: a frame whose stream id or end flag is not a number is dropped: nothing is
\* added to the collected chunks and the read loop goes on; a frame for the awaited
\* stream received in any later call is collected, and one with end flag 1
\* completes the response.
MalformedFrameSkipped ==
    [][Receives =>
          /\ ~NumbersIn(FrameReceived) =>
                 /\ responseChunks' = responseChunks
                 /\ rxState' = "receiving"
                 /\ buffer' = <<>>
          /\ (ForAwaited(FrameReceived) /\ FrameReceived.endStr \in {<<"0">>, <<"1">>}) =>
                 /\ responseChunks' = Append(responseChunks, FrameReceived.payload)
                 /\ FrameReceived.endStr = <<"1">> =>
                        (rxState' = "returned" /\ received' = Join(responseChunks'))]_vars

\* C13 witness: two malformed frames were received, one with a bad stream id and
\* one with a bad end flag, and the frame after them completed the response
MalformedFrameSkippedWitness ==
    /\ Len(framesSent) = 3
    /\ ~IsIntText(framesSent[1].sidStr)
    /\ ~IsIntText(framesSent[2].endStr)
    /\ rxState = "returned"
    /\ received = framesSent[3].payload
    /\ ~peerClosed

\* C14: a frame whose end flag is a number other than 0 and 1 is treated as
\* malformed: its payload is not added to the collected chunks.
EndFlagDomain ==
    [][(Receives /\ NumbersIn(FrameReceived)
            /\ StrToInt(FrameReceived.endStr) \notin {0, 1}) =>
          responseChunks' = responseChunks]_vars

\* the payloads, in order, of those of the frames that name the awaited stream
\* with numeric fields
RECURSIVE AwaitedPayloads(_)
AwaitedPayloads(frames) ==
    IF Len(frames) = 0 THEN <<>>
    ELSE IF ForAwaited(Head(frames))
    THEN <<Head(frames).payload>> \o AwaitedPayloads(Tail(frames))
    ELSE AwaitedPayloads(Tail(frames))

\* the first received frame for the awaited stream that carries end flag 1; 0 if none
FirstEnd ==
    LET ends == {k \in 1..Len(FramesReceived) :
                    ForAwaited(FramesReceived[k]) /\ FramesReceived[k].endStr = <<"1">>}
    IN  IF ends = {} THEN 0 ELSE CHOOSE k \in ends : \A j \in ends : k <= j

\* C15: when the peer closes before a frame with end flag 1 for the awaited stream
\* was received, receiveFramedResponse returns the payloads collected for the
\* awaited stream, joined in arrival order; the empty text when none was collected.
PeerCloseMidStream ==
    (rxState = "returned" /\ FirstEnd = 0) =>
        /\ peerClosed
        /\ wire = <<>>
        /\ received = Join(AwaitedPayloads(framesSent))

\* C15 witness: the peer closed after two frames for the awaited stream, none with
\* end flag 1, and the function has returned
PeerCloseMidStreamWitness ==
    /\ rxState = "returned"
    /\ peerClosed
    /\ FirstEnd = 0
    /\ Len(AwaitedPayloads(framesSent)) >= 2
    /\ Len(received) >= 2

\* every frame received is well-formed: numeric fields, end flag 0 or 1
WellFormedRun ==
    \A k \in 1..Len(FramesReceived) :
        NumbersIn(FramesReceived[k]) /\ FramesReceived[k].endStr \in {<<"0">>, <<"1">>}

\* C18: with one whole well-formed frame per receive call, the function returns
\* the payloads of the frames of the awaited stream up to and including the first
\* one with end flag 1, joined in arrival order; frames of other streams add
\* nothing and do not end the read loop.
ReassemblyByFrame ==
    WellFormedRun =>
        /\ FirstEnd # 0 =>
               /\ rxState = "returned"
               /\ FirstEnd = Len(FramesReceived)
               /\ received = Join(AwaitedPayloads(FramesReceived))
        /\ FirstEnd = 0 =>
               /\ responseChunks = AwaitedPayloads(FramesReceived)
               /\ rxState = "returned" => peerClosed

\* C18 witness: a frame of the awaited stream, a frame of another stream with end
\* flag 1, and the last frame of the awaited stream were received in that order
ReassemblyByFrameWitness ==
    /\ Len(framesSent) = 3
    /\ WellFormedRun
    /\ ForAwaited(framesSent[1]) /\ framesSent[1].endStr = <<"0">>
    /\ ~ForAwaited(framesSent[2]) /\ framesSent[2].endStr = <<"1">>
    /\ ForAwaited(framesSent[3]) /\ framesSent[3].endStr = <<"1">>
    /\ rxState = "returned"
    /\ received = framesSent[1].payload \o framesSent[3].payload

-----------------------------------------------------------------------------
(* Claims about revalidation against the origin *)

\* C24: whenever the origin has answered 304 to the conditional request of a
\* proxy thread and the thread relays the cached content, that content is what
\* the file held at the origin when the origin evaluated the condition, for
\* every interleaving of modifications of the file, of the origin's answers and
\* of the stores of other proxy threads.  (Stated for a cached content that is
\* a content of the file: the reply that stored it was received whole.)
NoStaleRevalidation ==
    [][\A t \in ProxyThreads :
          (/\ Dispatches(t)
           /\ StatusOf(px[t].response) = 304
           /\ cache[px[t].fileName].present
           /\ cache[px[t].fileName].content \in FileTexts
           /\ px'[t].out = createResponse(200, cache[px[t].fileName].content)) =>
              SplitReply(px'[t].out).body = px[t].originContent]_vars

====
